---- MODULE Spec2Model ----
(***************************************************************************)
(* LeftyChords: chord-name parsing (search.js), the pitch-class reverse    *)
(* index (reverseLookup.js), progression resolution (modal.js,             *)
(* Progressions), degree labelling (degrees.js) and the progression view   *)
(* of the application (app.js).                                            *)
(*                                                                         *)
(* Text is modelled as a sequence of one-character strings, so that        *)
(* slicing, case conversion, splitting and concatenation are computed as   *)
(* the JavaScript computes them.  A character outside ASCII is written as  *)
(* its code point ("U+266D" is the flat sign).                             *)
(***************************************************************************)
EXTENDS Integers, Sequences, FiniteSets, TLC

VARIABLES
    db,                \* data/guitar.json, the chord database resource
    csChordData,       \* ChordSearch.chordData
    rlChordData,       \* ReverseLookup.chordData
    midiIndex,         \* ReverseLookup.midiIndex
    query,             \* the text handed to the last search call
    result,            \* what the last search call returned
    PROGRESSIONS,      \* Progressions.PROGRESSIONS (the templates)
    searchMode,        \* App.searchMode
    selectedProgression, \* App.selectedProgression (a template id, or NoId)
    selectedKey,       \* App.selectedKey
    alterations,       \* App.alterations
    popup,             \* the .alteration-popup element, when present
    display,           \* the .progression-display element, when present
    lastEvent,         \* what the last handler did to overrides it found
    resolveInput,      \* arguments of a Progressions.resolve* call
    resolveOutput,     \* its return value
    degInput,          \* arguments of a ChordDegrees.calculateIntervals call
    degOutput,         \* its return value
    modal,             \* Modal: its state and what its elements show
    app,               \* App: initialization, listeners, the error message
    autocomplete,      \* Autocomplete: isOpen, suggestions, selectedIndex
    searchInput,       \* the #searchInput element: its value and focus
    timers             \* pending setTimeout callbacks

vars == <<db, csChordData, rlChordData, midiIndex, query, result,
          PROGRESSIONS, searchMode, selectedProgression, selectedKey,
          alterations, popup, display, lastEvent,
          resolveInput, resolveOutput, degInput, degOutput,
          modal, app, autocomplete, searchInput, timers>>

searchVars == <<db, csChordData, rlChordData, midiIndex, query, result>>
viewVars == <<PROGRESSIONS, searchMode, selectedProgression, selectedKey,
              alterations, popup, display, lastEvent>>
resolveVars == <<resolveInput, resolveOutput>>
degVars == <<degInput, degOutput>>
uiVars == <<modal, app, autocomplete, searchInput, timers>>

-----------------------------------------------------------------------------
(* JavaScript values *)

\* null and undefined.  A value that may be null is a record: a text, an array
\* or a Map that may be null is carried as Some(it).
Null == [isNull |-> TRUE]
IsNull(v) == v = Null
Some(x) == [value |-> x]

\* "U+0394" / "U+03B4" are the capital and small delta, "U+00D8" / "U+00F8" the
\* capital and small o with stroke, "U+00B0" the degree sign
SharpSign == "U+266F"
FlatSign == "U+266D"

LowerAlpha == <<"a","b","c","d","e","f","g","h","i","j","k","l","m",
                "n","o","p","q","r","s","t","u","v","w","x","y","z",
                "U+03B4", "U+00F8">>
UpperAlpha == <<"A","B","C","D","E","F","G","H","I","J","K","L","M",
                "N","O","P","Q","R","S","T","U","V","W","X","Y","Z",
                "U+0394", "U+00D8">>
Digits == <<"0","1","2","3","4","5","6","7","8","9">>

\* Array.prototype.indexOf / String.prototype.indexOf: 0-based, -1 when absent
indexOf(s, x) ==
    IF \E i \in 1..Len(s) : s[i] = x
    THEN (CHOOSE i \in 1..Len(s) : s[i] = x /\ \A j \in 1..(i-1) : s[j] # x) - 1
    ELSE -1

toUpperCaseChar(c) ==
    IF indexOf(LowerAlpha, c) >= 0 THEN UpperAlpha[indexOf(LowerAlpha, c) + 1] ELSE c
toLowerCaseChar(c) ==
    IF indexOf(UpperAlpha, c) >= 0 THEN LowerAlpha[indexOf(UpperAlpha, c) + 1] ELSE c
toUpperCase(t) == [i \in 1..Len(t) |-> toUpperCaseChar(t[i])]
toLowerCase(t) == [i \in 1..Len(t) |-> toLowerCaseChar(t[i])]

\* the characters \s matches and trim() removes
Whitespace == {" ", "\t"}

trim(t) ==
    LET ns == {i \in 1..Len(t) : t[i] \notin Whitespace}
    IN IF ns = {} THEN <<>>
       ELSE SubSeq(t, CHOOSE i \in ns : \A j \in ns : i <= j,
                      CHOOSE i \in ns : \A j \in ns : i >= j)

includes(t, c) == \E i \in 1..Len(t) : t[i] = c

\* String.prototype.slice(start) with 0-based start
slice(t, start) == SubSeq(t, start + 1, Len(t))

\* String.prototype.split on any one character of seps
RECURSIVE split(_, _)
split(t, seps) ==
    IF \A i \in 1..Len(t) : t[i] \notin seps THEN <<t>>
    ELSE LET i == CHOOSE k \in 1..Len(t) :
                      t[k] \in seps /\ \A j \in 1..(k-1) : t[j] \notin seps
         IN <<SubSeq(t, 1, i - 1)>> \o split(SubSeq(t, i + 1, Len(t)), seps)

\* split(/\s+/): a run of whitespace is one separator
splitWhitespaceRuns(t) ==
    LET parts == split(t, Whitespace)
        inner == SelectSeq(SubSeq(parts, 2, Len(parts) - 1), LAMBDA p : p # <<>>)
    IN IF Len(parts) = 1 THEN parts
       ELSE <<parts[1]>> \o inner \o <<parts[Len(parts)]>>

\* String(n) for a non-negative integer
RECURSIVE numberToText(_)
numberToText(n) ==
    IF n < 10 THEN <<Digits[n + 1]>>
    ELSE numberToText(n \div 10) \o <<Digits[(n % 10) + 1]>>

\* Array.prototype.join
RECURSIVE join(_, _)
join(parts, sep) ==
    IF Len(parts) = 0 THEN <<>>
    ELSE IF Len(parts) = 1 THEN parts[1]
    ELSE parts[1] \o sep \o join(Tail(parts), sep)

\* UTF-16 code unit order, which the default Array.prototype.sort compares by
codeUnit(c) ==
    LET CodeUnitOrder ==
          <<"\t", " ", "#", "+", ",", "-", "/">> \o Digits \o
          SubSeq(UpperAlpha, 1, 26) \o SubSeq(LowerAlpha, 1, 26) \o
          <<"U+00B0", "U+00D8", "U+00F8", "U+0394", "U+03B4",
            FlatSign, SharpSign>>
    IN indexOf(CodeUnitOrder, c)

RECURSIVE textLess(_, _)
textLess(a, b) ==
    IF Len(b) = 0 THEN FALSE
    ELSE IF Len(a) = 0 THEN TRUE
    ELSE IF codeUnit(a[1]) # codeUnit(b[1]) THEN codeUnit(a[1]) < codeUnit(b[1])
    ELSE textLess(Tail(a), Tail(b))

\* Array.from(set).sort(): ascending by code units
RECURSIVE sortTexts(_)
sortTexts(S) ==
    IF S = {} THEN <<>>
    ELSE LET m == CHOOSE x \in S : \A y \in S \ {x} : textLess(x, y)
         IN <<m>> \o sortTexts(S \ {m})

\* Array.from(set).sort((a, b) => a - b)
RECURSIVE sortNumbers(_)
sortNumbers(S) ==
    IF S = {} THEN <<>>
    ELSE LET m == CHOOSE x \in S : \A y \in S : x <= y
         IN <<m>> \o sortNumbers(S \ {m})

Range(s) == {s[i] : i \in 1..Len(s)}

\* the property names every object literal inherits from Object.prototype; a
\* lookup table[name] finds these although the table has no such entry, and
\* the value found is a function (an object for __proto__): truthy, not
\* nullish, not iterable and not a number
ObjectPrototypeKeys ==
    { <<"c","o","n","s","t","r","u","c","t","o","r">>,
      <<"t","o","S","t","r","i","n","g">>,
      <<"t","o","L","o","c","a","l","e","S","t","r","i","n","g">>,
      <<"v","a","l","u","e","O","f">>,
      <<"h","a","s","O","w","n","P","r","o","p","e","r","t","y">>,
      <<"i","s","P","r","o","t","o","t","y","p","e","O","f">>,
      <<"p","r","o","p","e","r","t","y","I","s","E","n","u","m","e","r","a","b","l","e">>,
      <<"_","_","p","r","o","t","o","_","_">>,
      <<"_","_","d","e","f","i","n","e","G","e","t","t","e","r","_","_">>,
      <<"_","_","d","e","f","i","n","e","S","e","t","t","e","r","_","_">>,
      <<"_","_","l","o","o","k","u","p","G","e","t","t","e","r","_","_">>,
      <<"_","_","l","o","o","k","u","p","S","e","t","t","e","r","_","_">> }

\* the value found under an inherited name: a function or object, shown here
\* as a text no string equals
inheritedValue(name) == <<"Object.prototype.">> \o name
isInheritedValue(v) == Len(v) > 0 /\ v[1] = "Object.prototype."

-----------------------------------------------------------------------------
(* reverseLookup.js *)

NOTE_TO_PITCH_CLASS ==
    (<<"C">> :> 0) @@ (<<"C","#">> :> 1) @@ (<<"D","b">> :> 1) @@ (<<"D",FlatSign>> :> 1) @@
    (<<"D">> :> 2) @@ (<<"D","#">> :> 3) @@ (<<"E","b">> :> 3) @@ (<<"E",FlatSign>> :> 3) @@
    (<<"E">> :> 4) @@ (<<"E","#">> :> 5) @@ (<<"F","b">> :> 4) @@ (<<"F",FlatSign>> :> 4) @@
    (<<"F">> :> 5) @@ (<<"F","#">> :> 6) @@ (<<"G","b">> :> 6) @@ (<<"G",FlatSign>> :> 6) @@
    (<<"G">> :> 7) @@ (<<"G","#">> :> 8) @@ (<<"A","b">> :> 8) @@ (<<"A",FlatSign>> :> 8) @@
    (<<"A">> :> 9) @@ (<<"A","#">> :> 10) @@ (<<"B","b">> :> 10) @@ (<<"B",FlatSign>> :> 10) @@
    (<<"B">> :> 11) @@ (<<"B","#">> :> 0) @@ (<<"C","b">> :> 11) @@ (<<"C",FlatSign>> :> 11)

PITCH_CLASS_TO_NOTE ==
    [pc \in 0..11 |->
        << <<"C">>, <<"D","b">>, <<"D">>, <<"E","b">>, <<"E">>, <<"F">>,
           <<"G","b">>, <<"G">>, <<"A","b">>, <<"A">>, <<"B","b">>, <<"B">> >>[pc + 1]]

Csharp == <<"C","s","h","a","r","p">>
Fsharp == <<"F","s","h","a","r","p">>

DATABASE_KEY_TO_DISPLAY ==
    (<<"C">> :> <<"C">>) @@ (Csharp :> <<"D","b">>) @@ (<<"D">> :> <<"D">>) @@
    (<<"E","b">> :> <<"E","b">>) @@ (<<"E">> :> <<"E">>) @@ (<<"F">> :> <<"F">>) @@
    (Fsharp :> <<"G","b">>) @@ (<<"G">> :> <<"G">>) @@ (<<"A","b">> :> <<"A","b">>) @@
    (<<"A">> :> <<"A">>) @@ (<<"B","b">> :> <<"B","b">>) @@ (<<"B">> :> <<"B">>)

major == <<"m","a","j","o","r">>

\* /[A-G]/i.test(char)
isNoteLetterAnyCase(c) == toUpperCaseChar(c) \in {"A","B","C","D","E","F","G"}

\* note % 12 drops the octave; the set drops repeated pitch classes
midiToPitchClassesDropMod(midiNotes) == sortNumbers({midiNotes[i] : i \in 1..Len(midiNotes)})
\* midiToPitchClasses without the Set and the sort: one entry per note played
midiToPitchClassesAsPlayed(midiNotes) ==
    [i \in 1..Len(midiNotes) |-> midiNotes[i] % 12]
midiToPitchClasses(midiNotes) ==
    sortNumbers({midiNotes[i] % 12 : i \in 1..Len(midiNotes)})

pitchClassesToKey(pitchClasses) ==
    join([i \in 1..Len(pitchClasses) |-> numberToText(pitchClasses[i])], <<",">>)

\* displayKey + (chord.suffix === 'major' ? '' : chord.suffix)
indexedChordName(key, chord) ==
    (IF key \in DOMAIN DATABASE_KEY_TO_DISPLAY THEN DATABASE_KEY_TO_DISPLAY[key] ELSE key)
    \o (IF chord.suffix = major THEN <<>> ELSE chord.suffix)

\* every (index key, chord name) pair the three nested forEach loops add
indexPairs(chordData) ==
    UNION { UNION { { <<pitchClassesToKey(midiToPitchClasses(
                           chordData.chords[key][c].positions[p].midi)),
                        indexedChordName(key, chordData.chords[key][c])>> :
                      p \in { q \in 1..Len(chordData.chords[key][c].positions) :
                              Len(chordData.chords[key][c].positions[q].midi) > 0 } } :
                    c \in 1..Len(chordData.chords[key]) } :
            key \in DOMAIN chordData.chords }

\* what buildIndex leaves in this.midiIndex: Some(the Map from index key to the
\* Set of chord names), or the old value when chordData is null
buildIndex(chordData, oldIndex) ==
    IF IsNull(chordData) THEN oldIndex
    ELSE LET pairs == indexPairs(chordData)
         IN Some([k \in {pr[1] : pr \in pairs} |->
                    {pr[2] : pr \in {q \in pairs : q[1] = k}}])

RECURSIVE parseCondensedFrom(_, _, _)
parseCondensedFrom(input, i, notes) ==
    IF i >= Len(input) THEN notes
    ELSE LET char == input[i + 1]
             note == <<toUpperCaseChar(char)>>
             flat == note \o <<"b">>
         IN IF ~isNoteLetterAnyCase(char) THEN parseCondensedFrom(input, i + 1, notes)
            ELSE IF i + 1 >= Len(input) THEN Append(notes, note)
            ELSE LET modifier == input[i + 2]
                 IN IF modifier \in {"#", SharpSign}
                    THEN parseCondensedFrom(input, i + 2, Append(notes, note \o <<"#">>))
                    ELSE IF modifier \in {"B", "b", FlatSign}
                    THEN IF i + 2 >= Len(input) \/ isNoteLetterAnyCase(input[i + 3])
                         THEN IF char \in {"D","E","G","A","B"}
                              THEN parseCondensedFrom(input, i + 2, Append(notes, flat))
                              ELSE parseCondensedFrom(input, i + 1, Append(notes, note))
                         ELSE parseCondensedFrom(input, i + 2, Append(notes, flat))
                    ELSE parseCondensedFrom(input, i + 1, Append(notes, note))

parseCondensedNotes(input) == parseCondensedFrom(input, 0, <<>>)

\* Null, or Some(the letter with '#' or 'b' appended)
normalizeNoteName(note) ==
    LET sharpWord == <<"s","h","a","r","p">>
        flatWord == <<"f","l","a","t">>
        normalized == trim(note)
        letter == toUpperCaseChar(normalized[1])
        rest == toLowerCase(slice(normalized, 1))
        spelled == IF Len(normalized) > 1 /\ rest \in {<<"#">>, <<SharpSign>>, sharpWord}
                   THEN <<letter, "#">>
                   ELSE IF Len(normalized) > 1 /\ rest \in {<<"b">>, <<FlatSign>>, flatWord}
                   THEN <<letter, "b">>
                   ELSE <<letter>>
    IN IF Len(note) = 0 THEN Null
       ELSE IF Len(normalized) = 0 THEN Null
       ELSE IF letter \notin {"A","B","C","D","E","F","G"} THEN Null
       ELSE IF spelled \in DOMAIN NOTE_TO_PITCH_CLASS THEN Some(spelled)
       ELSE Null

\* the notes array of parseNoteInput, before conversion to pitch classes
noteTokens(cleaned) ==
    IF includes(cleaned, ",") THEN LET parts == split(cleaned, {","})
                                   IN [i \in 1..Len(parts) |-> trim(parts[i])]
    ELSE IF includes(cleaned, " ") THEN splitWhitespaceRuns(cleaned)
    ELSE IF includes(cleaned, "-") THEN LET parts == split(cleaned, {"-"})
                                        IN [i \in 1..Len(parts) |-> trim(parts[i])]
    ELSE parseCondensedNotes(cleaned)

\* Null, or Some(the sorted array of distinct pitch classes)
parseNoteInput(input) ==
    IF Len(input) = 0 THEN Null
    ELSE LET notes == noteTokens(toUpperCase(trim(input)))
             valid == {i \in 1..Len(notes) : ~IsNull(normalizeNoteName(notes[i]))}
             pitchClasses ==
                 {NOTE_TO_PITCH_CLASS[normalizeNoteName(notes[i]).value] : i \in valid}
         IN IF pitchClasses = {} THEN Null ELSE Some(sortNumbers(pitchClasses))

invalidNoteInput == "Invalid note input"
noError == "null"

\* isPrefix(a, b): text a starts text b
isPrefix(a, b) == Len(a) <= Len(b) /\ SubSeq(b, 1, Len(a)) = a

\* ReverseLookup.search reporting a query that matches no chord as an error
ReverseLookup_searchMissIsError(input, index) ==
    LET parsed == parseNoteInput(input)
        pitchClasses == parsed.value
        key == pitchClassesToKey(pitchClasses)
        noteNames == [i \in 1..Len(pitchClasses) |-> PITCH_CLASS_TO_NOTE[pitchClasses[i]]]
    IN IF IsNull(parsed)
       THEN [notes |-> <<>>, chords |-> <<>>, pitchClasses |-> <<>>,
             error |-> invalidNoteInput, threw |-> FALSE]
       ELSE IF IsNull(index)
       THEN [notes |-> <<>>, chords |-> <<>>, pitchClasses |-> <<>>,
             error |-> noError, threw |-> TRUE]
       ELSE IF key \notin DOMAIN index.value
       THEN [notes |-> noteNames, chords |-> <<>>, pitchClasses |-> pitchClasses,
             error |-> invalidNoteInput, threw |-> FALSE]
       ELSE [notes |-> noteNames, chords |-> sortTexts(index.value[key]),
             pitchClasses |-> pitchClasses, error |-> noError, threw |-> FALSE]

\* ReverseLookup.search reading every index entry whose key starts with the
\* query's key instead of the one entry with that key
ReverseLookup_searchPrefix(input, index) ==
    LET parsed == parseNoteInput(input)
        pitchClasses == parsed.value
    IN IF IsNull(parsed)
       THEN [notes |-> <<>>, chords |-> <<>>, pitchClasses |-> <<>>,
             error |-> invalidNoteInput, threw |-> FALSE]
       ELSE IF IsNull(index)
       THEN [notes |-> <<>>, chords |-> <<>>, pitchClasses |-> <<>>,
             error |-> noError, threw |-> TRUE]
       ELSE LET key == pitchClassesToKey(pitchClasses)
                noteNames == [i \in 1..Len(pitchClasses) |->
                                 PITCH_CLASS_TO_NOTE[pitchClasses[i]]]
            IN [notes |-> noteNames,
                chords |-> sortTexts(UNION {index.value[k] :
                               k \in {j \in DOMAIN index.value : isPrefix(key, j)}}),
                pitchClasses |-> pitchClasses,
                error |-> noError, threw |-> FALSE]

\* ReverseLookup.search; threw marks the TypeError of reading .get of a null index
ReverseLookup_search(input, index) ==
    LET parsed == parseNoteInput(input)
        pitchClasses == parsed.value
    IN IF IsNull(parsed)
       THEN [notes |-> <<>>, chords |-> <<>>, pitchClasses |-> <<>>,
             error |-> invalidNoteInput, threw |-> FALSE]
       ELSE IF IsNull(index)
       THEN [notes |-> <<>>, chords |-> <<>>, pitchClasses |-> <<>>,
             error |-> noError, threw |-> TRUE]
       ELSE LET key == pitchClassesToKey(pitchClasses)
                noteNames == [i \in 1..Len(pitchClasses) |->
                                 PITCH_CLASS_TO_NOTE[pitchClasses[i]]]
            IN [notes |-> noteNames,
                chords |-> IF key \in DOMAIN index.value
                           THEN sortTexts(index.value[key]) ELSE <<>>,
                pitchClasses |-> pitchClasses,
                error |-> noError, threw |-> FALSE]

-----------------------------------------------------------------------------
(* search.js *)

NoteAliasesAsTyped ==
    [r \in {<<l>> : l \in {"A","B","C","D","E","F","G"}}
           \cup {<<l, m>> : l \in {"A","B","C","D","E","F","G"}, m \in {"#", "b"}} |-> r]

NOTE_ALIASES ==
    (<<"C">> :> <<"C">>) @@ (<<"C","#">> :> <<"D","b">>) @@ (<<"D","B">> :> <<"D","b">>) @@ (<<"D","b">> :> <<"D","b">>) @@
    (<<"D">> :> <<"D">>) @@ (<<"D","#">> :> <<"E","b">>) @@ (<<"E","B">> :> <<"E","b">>) @@ (<<"E","b">> :> <<"E","b">>) @@
    (<<"E">> :> <<"E">>) @@ (<<"E","#">> :> <<"F">>) @@ (<<"F","B">> :> <<"E">>) @@ (<<"F","b">> :> <<"E">>) @@
    (<<"F">> :> <<"F">>) @@ (<<"F","#">> :> <<"G","b">>) @@ (<<"G","B">> :> <<"G","b">>) @@ (<<"G","b">> :> <<"G","b">>) @@
    (<<"G">> :> <<"G">>) @@ (<<"G","#">> :> <<"A","b">>) @@ (<<"A","B">> :> <<"A","b">>) @@ (<<"A","b">> :> <<"A","b">>) @@
    (<<"A">> :> <<"A">>) @@ (<<"A","#">> :> <<"B","b">>) @@ (<<"B","B">> :> <<"B","b">>) @@ (<<"B","b">> :> <<"B","b">>) @@
    (<<"B">> :> <<"B">>) @@ (<<"B","#">> :> <<"C">>) @@ (<<"C","B">> :> <<"B">>) @@ (<<"C","b">> :> <<"B">>)

DATABASE_KEY_MAP ==
    (<<"C">> :> <<"C">>) @@ (<<"D","b">> :> <<"C","s","h","a","r","p">>) @@ (<<"D">> :> <<"D">>) @@ (<<"E","b">> :> <<"E","b">>) @@
    (<<"E">> :> <<"E">>) @@ (<<"F">> :> <<"F">>) @@ (<<"G","b">> :> <<"F","s","h","a","r","p">>) @@ (<<"G">> :> <<"G">>) @@
    (<<"A","b">> :> <<"A","b">>) @@ (<<"A">> :> <<"A">>) @@ (<<"B","b">> :> <<"B","b">>) @@ (<<"B">> :> <<"B">>)

SUFFIX_ALIASES ==
    (<<>> :> <<"m","a","j","o","r">>) @@ (<<"M">> :> <<"m","a","j","o","r">>) @@ (<<"m","a","j">> :> <<"m","a","j","o","r">>) @@
    (<<"M","A","J">> :> <<"m","a","j","o","r">>) @@ (<<"m","a","j","o","r">> :> <<"m","a","j","o","r">>) @@ (<<"M","a","j","o","r">> :> <<"m","a","j","o","r">>) @@
    (<<"M","A","J","O","R">> :> <<"m","a","j","o","r">>) @@ (<<"m">> :> <<"m","i","n","o","r">>) @@ (<<"m","i","n">> :> <<"m","i","n","o","r">>) @@
    (<<"M","I","N">> :> <<"m","i","n","o","r">>) @@ (<<"-">> :> <<"m","i","n","o","r">>) @@ (<<"m","i","n","o","r">> :> <<"m","i","n","o","r">>) @@
    (<<"M","i","n","o","r">> :> <<"m","i","n","o","r">>) @@ (<<"M","I","N","O","R">> :> <<"m","i","n","o","r">>) @@ (<<"d","i","m">> :> <<"d","i","m">>) @@
    (<<"o">> :> <<"d","i","m">>) @@ (<<"U+00B0">> :> <<"d","i","m">>) @@ (<<"d","i","m","i","n","i","s","h","e","d">> :> <<"d","i","m">>) @@
    (<<"d","i","m","7">> :> <<"d","i","m","7">>) @@ (<<"o","7">> :> <<"d","i","m","7">>) @@ (<<"U+00B0","7">> :> <<"d","i","m","7">>) @@
    (<<"a","u","g">> :> <<"a","u","g">>) @@ (<<"+">> :> <<"a","u","g">>) @@ (<<"a","u","g","m","e","n","t","e","d">> :> <<"a","u","g">>) @@
    (<<"s","u","s">> :> <<"s","u","s","4">>) @@ (<<"s","u","s","4">> :> <<"s","u","s","4">>) @@ (<<"s","u","s","2">> :> <<"s","u","s","2">>) @@
    (<<"s","u","s","p","e","n","d","e","d">> :> <<"s","u","s","4">>) @@ (<<"s","u","s","p","e","n","d","e","d","4">> :> <<"s","u","s","4">>) @@ (<<"s","u","s","p","e","n","d","e","d","2">> :> <<"s","u","s","2">>) @@
    (<<"7">> :> <<"7">>) @@ (<<"d","o","m","7">> :> <<"7">>) @@ (<<"d","o","m","i","n","a","n","t","7">> :> <<"7">>) @@
    (<<"d","o","m","i","n","a","n","t">> :> <<"7">>) @@ (<<"m","a","j","7">> :> <<"m","a","j","7">>) @@ (<<"M","7">> :> <<"m","a","j","7">>) @@
    (<<"m","a","j","o","r","7">> :> <<"m","a","j","7">>) @@ (<<"U+0394","7">> :> <<"m","a","j","7">>) @@ (<<"U+0394">> :> <<"m","a","j","7">>) @@
    (<<"m","7">> :> <<"m","7">>) @@ (<<"m","i","n","7">> :> <<"m","7">>) @@ (<<"m","i","n","o","r","7">> :> <<"m","7">>) @@
    (<<"-","7">> :> <<"m","7">>) @@ (<<"m","7","b","5">> :> <<"m","7","b","5">>) @@ (<<"U+00F8">> :> <<"m","7","b","5">>) @@
    (<<"U+00F8","7">> :> <<"m","7","b","5">>) @@ (<<"h","a","l","f","-","d","i","m">> :> <<"m","7","b","5">>) @@ (<<"h","a","l","f","-","d","i","m","i","n","i","s","h","e","d">> :> <<"m","7","b","5">>) @@
    (<<"9">> :> <<"9">>) @@ (<<"m","a","j","9">> :> <<"m","a","j","9">>) @@ (<<"m","9">> :> <<"m","9">>) @@
    (<<"m","i","n","9">> :> <<"m","9">>) @@ (<<"6">> :> <<"6">>) @@ (<<"m","a","j","6">> :> <<"6">>) @@
    (<<"m","6">> :> <<"m","6">>) @@ (<<"m","i","n","6">> :> <<"m","6">>) @@ (<<"a","d","d","9">> :> <<"a","d","d","9">>) @@
    (<<"a","d","d","2">> :> <<"a","d","d","9">>) @@ (<<"m","a","d","d","9">> :> <<"m","a","d","d","9">>) @@ (<<"5">> :> <<"5">>) @@
    (<<"p","o","w","e","r">> :> <<"5">>) @@ (<<"6","9">> :> <<"6","9">>) @@ (<<"6","/","9">> :> <<"6","9">>) @@
    (<<"1","1">> :> <<"1","1">>) @@ (<<"1","3">> :> <<"1","3">>) @@ (<<"m","a","j","1","1">> :> <<"m","a","j","1","1">>) @@
    (<<"m","a","j","1","3">> :> <<"m","a","j","1","3">>) @@ (<<"m","1","1">> :> <<"m","1","1">>)

minor == <<"m","i","n","o","r">>

removeWhitespace(t) == SelectSeq(t, LAMBDA c : c \notin Whitespace)

\* the root text of parseChordName before NOTE_ALIASES, and where the suffix starts
rootAndStart(chord) ==
    LET letter == toUpperCaseChar(chord[1])
    IN IF Len(chord) > 1 /\ chord[2] \in {"#", SharpSign}
       THEN [root |-> <<letter, "#">>, suffixStart |-> 2]
       ELSE IF Len(chord) > 1 /\ chord[2] \in {"b", FlatSign}
       THEN [root |-> <<letter, "b">>, suffixStart |-> 2]
       ELSE [root |-> <<letter>>, suffixStart |-> 1]

\* the alias, database and pass-through steps on the suffix text; the alias
\* table is an object literal, so SUFFIX_ALIASES[suffix] also finds the names
\* it inherits, and what it finds is truthy
normalizeSuffix(suffix, chordData) ==
    IF suffix \in DOMAIN SUFFIX_ALIASES THEN SUFFIX_ALIASES[suffix]
    ELSE IF suffix \in ObjectPrototypeKeys THEN inheritedValue(suffix)
    ELSE IF toLowerCase(suffix) \in DOMAIN SUFFIX_ALIASES
    THEN SUFFIX_ALIASES[toLowerCase(suffix)]
    ELSE IF toLowerCase(suffix) \in ObjectPrototypeKeys
    THEN inheritedValue(toLowerCase(suffix))
    ELSE IF ~IsNull(chordData) /\ suffix \in Range(chordData.suffixes) THEN suffix
    ELSE IF ~IsNull(chordData) /\ toLowerCase(suffix) \in Range(chordData.suffixes)
    THEN toLowerCase(suffix)
    ELSE IF suffix = <<>> THEN major
    ELSE suffix

\* Null, or [root, suffix]
parseChordName(input, chordData) ==
    LET chord == trim(input)
        rs == rootAndStart(chord)
        suffix == removeWhitespace(trim(slice(chord, rs.suffixStart)))
    IN IF Len(input) = 0 THEN Null
       ELSE IF Len(chord) = 0 THEN Null
       ELSE IF rs.root \notin DOMAIN NOTE_ALIASES THEN Null
       ELSE [root |-> NOTE_ALIASES[rs.root], suffix |-> normalizeSuffix(suffix, chordData)]

getDatabaseKey(note) ==
    IF note \in DOMAIN DATABASE_KEY_MAP THEN DATABASE_KEY_MAP[note] ELSE note

\* Array.prototype.find: the first element satisfying Test, or Null
find(s, Test(_)) ==
    IF \E i \in 1..Len(s) : Test(s[i])
    THEN s[CHOOSE i \in 1..Len(s) : Test(s[i]) /\ \A j \in 1..(i-1) : ~Test(s[j])]
    ELSE Null

\* a call that ended in a TypeError
TypeError == [threw |-> "TypeError"]

\* ChordSearch.search: the chord entry, or Null; the case-insensitive pass
\* calls suffix.toLowerCase() for the first entry of the key, a TypeError when
\* the parsed suffix is no string
ChordSearch_search(input, chordData) ==
    IF IsNull(chordData) THEN Null
    ELSE LET parsed == parseChordName(input, chordData)
             dbKey == getDatabaseKey(parsed.root)
             keyChords == chordData.chords[dbKey]
             exact == find(keyChords, LAMBDA c : c.suffix = parsed.suffix)
         IN IF IsNull(parsed) THEN Null
            ELSE IF dbKey \notin DOMAIN chordData.chords THEN Null
            ELSE IF ~IsNull(exact) THEN exact
            ELSE IF isInheritedValue(parsed.suffix) /\ Len(keyChords) > 0 THEN TypeError
            ELSE find(keyChords,
                      LAMBDA c : toLowerCase(c.suffix) = toLowerCase(parsed.suffix))

\* suffixMatches without the m / maj special case: plain prefix matching
suffixMatchesPlainPrefix(dbSuffix, rawSuffix) ==
    isPrefix(toLowerCase(rawSuffix), toLowerCase(dbSuffix))

\* ChordSearch.suffixMatches(dbSuffix, rawSuffix)
suffixMatches(dbSuffix, rawSuffix) ==
    LET raw == toLowerCase(rawSuffix)
        dbLower == toLowerCase(dbSuffix)
    IN IF rawSuffix = <<>> THEN TRUE
       ELSE IF \/ raw = <<"m">>
               \/ isPrefix(<<"m">>, raw) /\ ~isPrefix(<<"m","a">>, raw)
            THEN IF \/ dbLower = minor
                    \/ isPrefix(<<"m">>, dbLower) /\ ~isPrefix(<<"m","a","j">>, dbLower)
                 THEN IF raw = <<"m">>
                      THEN dbLower = minor \/ isPrefix(<<"m">>, dbLower)
                      ELSE isPrefix(raw, dbLower) \/ (dbLower = minor /\ raw = <<"m">>)
                 ELSE FALSE
            ELSE isPrefix(raw, dbLower)

\* the text the user typed after the root, as getSuggestions extracts it
rawSuffixOf(partial) ==
    LET trimmed == trim(partial)
        rootEnd == IF Len(trimmed) > 1 /\ trimmed[2] \in {"#", "b", SharpSign, FlatSign}
                   THEN 2 ELSE 1
    IN IF Len(trimmed) > 1 THEN slice(trimmed, rootEnd) ELSE <<>>

\* getSuggestions returning every match instead of the first ten
getSuggestionsUncut(partial, chordData) ==
    LET parsed == parseChordName(partial, chordData)
        dbKey == getDatabaseKey(parsed.root)
        matches == SelectSeq(chordData.chords[dbKey],
                             LAMBDA chord : suffixMatches(chord.suffix, rawSuffixOf(partial)))
    IN IF IsNull(chordData) \/ Len(partial) = 0 THEN <<>>
       ELSE IF IsNull(parsed) THEN <<>>
       ELSE IF dbKey \notin DOMAIN chordData.chords THEN <<>>
       ELSE [i \in 1..Len(matches) |->
               parsed.root \o (IF matches[i].suffix = major THEN <<>>
                               ELSE matches[i].suffix)]

\* ChordSearch.getSuggestions(partial): at most ten chord names
getSuggestions(partial, chordData) ==
    LET parsed == parseChordName(partial, chordData)
        dbKey == getDatabaseKey(parsed.root)
        matches == SelectSeq(chordData.chords[dbKey],
                             LAMBDA chord : suffixMatches(chord.suffix, rawSuffixOf(partial)))
        suggestions == [i \in 1..Len(matches) |->
                          parsed.root \o (IF matches[i].suffix = major THEN <<>>
                                          ELSE matches[i].suffix)]
    IN IF IsNull(chordData) \/ Len(partial) = 0 THEN <<>>
       ELSE IF IsNull(parsed) THEN <<>>
       ELSE IF dbKey \notin DOMAIN chordData.chords THEN <<>>
       ELSE SubSeq(suggestions, 1, IF Len(suggestions) < 10 THEN Len(suggestions) ELSE 10)

-----------------------------------------------------------------------------
(* The chord database: data/guitar.json as App.loadChordData reads it.     *)
(* chords maps a database key to its chord entries {key, suffix,           *)
(* positions}; a position carries frets and midi; suffixes lists every     *)
(* suffix of the database.                                                 *)

MaxVoicings == 2

maj7 == <<"m","a","j","7">>
sus == <<"s","u","s">>

mmaj7 == <<"m","m","a","j","7">>

\* x32010 (C E G C E), x32000 (C E G B E), and a position without midi data
PositionPool ==
    { [frets |-> <<-1, 3, 2, 0, 1, 0>>, midi |-> <<48, 52, 55, 60, 64>>],
      [frets |-> <<-1, 3, 2, 0, 0, 0>>, midi |-> <<48, 52, 55, 59, 64>>],
      [frets |-> <<-1, 3, 2, 0, 1, 0>>, midi |-> <<>>] }

\* the "key" property of a chord entry: the database spells C# and F# with '#'
keyProperty(dbKey) ==
    IF dbKey = Csharp THEN <<"C","#">> ELSE IF dbKey = Fsharp THEN <<"F","#">> ELSE dbKey

\* voicings of two database keys; the chord entries use the first three suffixes
VoicingKinds ==
    LET DbKeyPool == {<<"C">>, Csharp}
        VoicedSuffixes == {major, maj7, sus}
    IN [dbKey : DbKeyPool, suffix : VoicedSuffixes, position : PositionPool]

RECURSIVE distinct(_)
distinct(s) ==
    IF Len(s) = 0 THEN <<>>
    ELSE <<s[1]>> \o distinct(SelectSeq(Tail(s), LAMBDA x : x # s[1]))

\* the chord entries of one database key, one entry per suffix
chordsOfKey(voicings, dbKey) ==
    LET mine == SelectSeq(voicings, LAMBDA v : v.dbKey = dbKey)
        suffixes == distinct([i \in 1..Len(mine) |-> mine[i].suffix])
    IN [i \in 1..Len(suffixes) |->
          LET its == SelectSeq(mine, LAMBDA v : v.suffix = suffixes[i])
          IN [key |-> keyProperty(dbKey), suffix |-> suffixes[i],
              positions |-> [j \in 1..Len(its) |-> its[j].position]]]

makeDatabase(voicings) ==
    [suffixes |-> <<major, maj7, sus, mmaj7>>,
     chords |-> [k \in {voicings[i].dbKey : i \in 1..Len(voicings)} |->
                    chordsOfKey(voicings, k)]]

Databases ==
    {makeDatabase(v) : v \in UNION {[1..n -> VoicingKinds] : n \in 1..MaxVoicings}}

-----------------------------------------------------------------------------
(* modal.js: Progressions *)

KEYS ==
    << <<"C">>, <<"D","b">>, <<"D">>, <<"E","b">>, <<"E">>, <<"F">>,
       <<"G","b">>, <<"G">>, <<"A","b">>, <<"A">>, <<"B","b">>, <<"B">> >>

INTERVALS ==
    (<<"I">> :> 0) @@ (<<"i","i">> :> 2) @@ (<<"i","i","i">> :> 4) @@ (<<"I","V">> :> 5) @@
    (<<"V">> :> 7) @@ (<<"v","i">> :> 9) @@ (<<"v","i","i">> :> 11) @@ (<<"V","I","I">> :> 11) @@
    (<<"V","I">> :> 9) @@ (<<"b","V","I","I">> :> 10) @@ (<<"b","I","I","I">> :> 3) @@ (<<"b","V","I">> :> 8) @@
    (<<"i">> :> 0) @@ (<<"i","v">> :> 5) @@ (<<"v">> :> 7) @@ (<<"b","I","I">> :> 1) @@
    (<<"I","I">> :> 2) @@ (<<"I","I","I">> :> 4) @@ (<<"b","i","i","i">> :> 3) @@ (<<"b","i","i">> :> 1)

ALTERATIONS ==
    (<<"7">> :> <<<<"7">>, <<"9">>, <<"1","3">>, <<"7","b","9">>, <<"7","#","9">>, <<"7","b","5">>, <<"7","#","5">>, <<"a","l","t">>, <<"7","s","u","s","4">>>>) @@
    (<<"m","7">> :> <<<<"m","7">>, <<"m","9">>, <<"m","1","1">>, <<"m","6">>>>) @@
    (<<"m","a","j","7">> :> <<<<"m","a","j","7">>, <<"m","a","j","9">>, <<"6">>, <<"6","9">>>>) @@
    (<<"m","7","b","5">> :> <<<<"m","7","b","5">>, <<"d","i","m","7">>>>) @@
    (<<>> :> <<<<>>, <<"s","u","s","2">>, <<"s","u","s","4">>, <<"a","d","d","9">>>>) @@
    (<<"m">> :> <<<<"m">>, <<"m","7">>, <<"m","9">>, <<"m","a","d","d","9">>>>)

TEMPLATES ==
    ("ii-V-I" :>
    [ id |-> "ii-V-I",
      category |-> "jazz",
      displayMode |-> "undefined",
      numerals |-> Some(<<<<"i","i">>, <<"V">>, <<"I">>>>),
      qualities |-> Some((<<"i","i">> :> <<"m","7">>) @@ (<<"V">> :> <<"7">>) @@ (<<"I">> :> <<"m","a","j","7">>)),
      sections |-> Null,
      chart |-> Null ]) @@
    ("minor-ii-V-i" :>
    [ id |-> "minor-ii-V-i",
      category |-> "jazz",
      displayMode |-> "undefined",
      numerals |-> Some(<<<<"i","i">>, <<"V">>, <<"i">>>>),
      qualities |-> Some((<<"i","i">> :> <<"m","7","b","5">>) @@ (<<"V">> :> <<"7">>) @@ (<<"i">> :> <<"m","7">>)),
      sections |-> Null,
      chart |-> Null ]) @@
    ("turnaround" :>
    [ id |-> "turnaround",
      category |-> "jazz",
      displayMode |-> "undefined",
      numerals |-> Some(<<<<"I">>, <<"v","i">>, <<"i","i">>, <<"V">>>>),
      qualities |-> Some((<<"I">> :> <<"m","a","j","7">>) @@ (<<"v","i">> :> <<"m","7">>) @@ (<<"i","i">> :> <<"m","7">>) @@ (<<"V">> :> <<"7">>)),
      sections |-> Null,
      chart |-> Null ]) @@
    ("rhythm-changes" :>
    [ id |-> "rhythm-changes",
      category |-> "jazz",
      displayMode |-> "sections",
      numerals |-> Null,
      qualities |-> Null,
      sections |-> Some(<<
          [sectionKey |-> <<"A">>, label |-> "A Section",
            numerals |-> <<<<"I">>, <<"V","I">>, <<"i","i">>, <<"V">>>>,
            qualities |-> (<<"I">> :> <<"m","a","j","7">>) @@ (<<"V","I">> :> <<"7">>) @@ (<<"i","i">> :> <<"m","7">>) @@ (<<"V">> :> <<"7">>)],
          [sectionKey |-> <<"B">>, label |-> "Bridge",
            numerals |-> <<<<"I","I","I">>, <<"V","I">>, <<"I","I">>, <<"V">>>>,
            qualities |-> (<<"I","I","I">> :> <<"7">>) @@ (<<"V","I">> :> <<"7">>) @@ (<<"I","I">> :> <<"7">>) @@ (<<"V">> :> <<"7">>)] >>),
      chart |-> Null ]) @@
    ("backdoor-ii-V" :>
    [ id |-> "backdoor-ii-V",
      category |-> "jazz",
      displayMode |-> "undefined",
      numerals |-> Some(<<<<"i","v">>, <<"b","V","I","I">>, <<"I">>>>),
      qualities |-> Some((<<"i","v">> :> <<"m","7">>) @@ (<<"b","V","I","I">> :> <<"7">>) @@ (<<"I">> :> <<"m","a","j","7">>)),
      sections |-> Null,
      chart |-> Null ]) @@
    ("tritone-sub" :>
    [ id |-> "tritone-sub",
      category |-> "jazz",
      displayMode |-> "undefined",
      numerals |-> Some(<<<<"i","i">>, <<"b","I","I">>, <<"I">>>>),
      qualities |-> Some((<<"i","i">> :> <<"m","7">>) @@ (<<"b","I","I">> :> <<"7">>) @@ (<<"I">> :> <<"m","a","j","7">>)),
      sections |-> Null,
      chart |-> Null ]) @@
    ("12-bar-blues" :>
    [ id |-> "12-bar-blues",
      category |-> "blues",
      displayMode |-> "summary",
      numerals |-> Some(<<<<"I">>, <<"I">>, <<"I">>, <<"I">>, <<"I","V">>, <<"I","V">>, <<"I">>, <<"I">>, <<"V">>, <<"I","V">>, <<"I">>, <<"V">>>>),
      qualities |-> Some((<<"I">> :> <<"7">>) @@ (<<"I","V">> :> <<"7">>) @@ (<<"V">> :> <<"7">>)),
      sections |-> Null,
      chart |-> Null ]) @@
    ("minor-blues" :>
    [ id |-> "minor-blues",
      category |-> "blues",
      displayMode |-> "summary",
      numerals |-> Some(<<<<"i">>, <<"i">>, <<"i">>, <<"i">>, <<"i","v">>, <<"i","v">>, <<"i">>, <<"i">>, <<"V">>, <<"i","v">>, <<"i">>, <<"V">>>>),
      qualities |-> Some((<<"i">> :> <<"m","7">>) @@ (<<"i","v">> :> <<"m","7">>) @@ (<<"V">> :> <<"7">>)),
      sections |-> Null,
      chart |-> Null ]) @@
    ("jazz-blues" :>
    [ id |-> "jazz-blues",
      category |-> "blues",
      displayMode |-> "summary",
      numerals |-> Some(<<<<"I">>, <<"I","V">>, <<"I">>, <<"I">>, <<"I","V">>, <<"I","V">>, <<"I">>, <<"I">>, <<"i","i">>, <<"V">>, <<"I">>, <<"V">>>>),
      qualities |-> Some((<<"I">> :> <<"7">>) @@ (<<"I","V">> :> <<"7">>) @@ (<<"i","i">> :> <<"m","7">>) @@ (<<"V">> :> <<"7">>)),
      sections |-> Null,
      chart |-> Null ]) @@
    ("bird-blues" :>
    [ id |-> "bird-blues",
      category |-> "blues",
      displayMode |-> "chart",
      numerals |-> Null,
      qualities |-> Null,
      sections |-> Null,
      chart |-> Some(<<
          <<[n |-> <<"I">>, q |-> <<"m","a","j","7">>]>>,
          <<[n |-> <<"v","i","i">>, q |-> <<"m","7","b","5">>], [n |-> <<"I","I","I">>, q |-> <<"7">>]>>,
          <<[n |-> <<"v","i">>, q |-> <<"m","7">>], [n |-> <<"I","I">>, q |-> <<"7">>]>>,
          <<[n |-> <<"v">>, q |-> <<"m","7">>], [n |-> <<"I">>, q |-> <<"7">>]>>,
          <<[n |-> <<"I","V">>, q |-> <<"7">>]>>,
          <<[n |-> <<"i","v">>, q |-> <<"m","7">>], [n |-> <<"b","V","I","I">>, q |-> <<"7">>]>>,
          <<[n |-> <<"i","i","i">>, q |-> <<"m","7">>], [n |-> <<"V","I">>, q |-> <<"7">>]>>,
          <<[n |-> <<"b","i","i","i">>, q |-> <<"m","7">>], [n |-> <<"b","V","I">>, q |-> <<"7">>]>>,
          <<[n |-> <<"i","i">>, q |-> <<"m","7">>]>>,
          <<[n |-> <<"V">>, q |-> <<"7">>]>>,
          <<[n |-> <<"I">>, q |-> <<"m","a","j","7">>], [n |-> <<"V","I">>, q |-> <<"7">>]>>,
          <<[n |-> <<"i","i">>, q |-> <<"m","7">>], [n |-> <<"V">>, q |-> <<"7">>]>> >>) ]) @@
    ("I-IV-V" :>
    [ id |-> "I-IV-V",
      category |-> "pop",
      displayMode |-> "undefined",
      numerals |-> Some(<<<<"I">>, <<"I","V">>, <<"V">>>>),
      qualities |-> Some((<<"I">> :> <<>>) @@ (<<"I","V">> :> <<>>) @@ (<<"V">> :> <<>>)),
      sections |-> Null,
      chart |-> Null ]) @@
    ("I-V-vi-IV" :>
    [ id |-> "I-V-vi-IV",
      category |-> "pop",
      displayMode |-> "undefined",
      numerals |-> Some(<<<<"I">>, <<"V">>, <<"v","i">>, <<"I","V">>>>),
      qualities |-> Some((<<"I">> :> <<>>) @@ (<<"V">> :> <<>>) @@ (<<"v","i">> :> <<"m">>) @@ (<<"I","V">> :> <<>>)),
      sections |-> Null,
      chart |-> Null ]) @@
    ("50s-doo-wop" :>
    [ id |-> "50s-doo-wop",
      category |-> "pop",
      displayMode |-> "undefined",
      numerals |-> Some(<<<<"I">>, <<"v","i">>, <<"I","V">>, <<"V">>>>),
      qualities |-> Some((<<"I">> :> <<>>) @@ (<<"v","i">> :> <<"m">>) @@ (<<"I","V">> :> <<>>) @@ (<<"V">> :> <<>>)),
      sections |-> Null,
      chart |-> Null ]) @@
    ("andalusian-cadence" :>
    [ id |-> "andalusian-cadence",
      category |-> "pop",
      displayMode |-> "undefined",
      numerals |-> Some(<<<<"v","i">>, <<"V">>, <<"I","V">>, <<"I","I","I">>>>),
      qualities |-> Some((<<"v","i">> :> <<"m">>) @@ (<<"V">> :> <<>>) @@ (<<"I","V">> :> <<>>) @@ (<<"I","I","I">> :> <<>>)),
      sections |-> Null,
      chart |-> Null ])

\* numeral.replace(/[0-9]/g, '')
stripDigits(numeral) == SelectSeq(numeral, LAMBDA c : c \notin Range(Digits))

sharpToFlat ==
    (<<"C","#">> :> <<"D","b">>) @@ (<<"D","#">> :> <<"E","b">>) @@
    (<<"F","#">> :> <<"G","b">>) @@ (<<"G","#">> :> <<"A","b">>) @@
    (<<"A","#">> :> <<"B","b">>)

\* sharpToFlat[note] || note; the name of an Object.prototype property finds
\* the inherited value
normalizeToFlat(note) ==
    IF note \in DOMAIN sharpToFlat THEN sharpToFlat[note]
    ELSE IF note \in ObjectPrototypeKeys THEN inheritedValue(note)
    ELSE note

rootIndexOfKey(keyIndex, interval) == keyIndex % 12

\* index into KEYS of the chord root
rootIndex(keyIndex, interval) == (keyIndex + interval) % 12

\* an unknown key or an unknown numeral logs an error and returns the key
resolveRoot(numeral, key) ==
    LET keyIndex == indexOf(KEYS, normalizeToFlat(key))
        cleanNumeral == stripDigits(numeral)
    IN IF keyIndex = -1 THEN key
       ELSE IF cleanNumeral \notin DOMAIN INTERVALS THEN key
       ELSE KEYS[rootIndex(keyIndex, INTERVALS[cleanNumeral]) + 1]

resolveChord(numeral, key, quality) == resolveRoot(numeral, key) \o quality

\* qualities[numeral] || ''
qualityOf(qualities, numeral) ==
    IF numeral \in DOMAIN qualities THEN qualities[numeral] ELSE <<>>

\* the object built for one slot
resolvedSlot(numeral, quality, key) ==
    [numeral |-> numeral,
     root |-> resolveRoot(numeral, key),
     quality |-> quality,
     chordName |-> resolveRoot(numeral, key) \o quality]

\* the array of resolved slots; [] for a template without numerals
resolveProgression(progression, key) ==
    IF IsNull(progression.numerals) THEN <<>>
    ELSE [i \in 1..Len(progression.numerals.value) |->
            resolvedSlot(progression.numerals.value[i],
                         qualityOf(progression.qualities.value,
                                   progression.numerals.value[i]),
                         key)]

\* the sections in insertion order, each with its label and resolved slots
resolveSections(progression, key) ==
    [s \in 1..Len(progression.sections.value) |->
        LET section == progression.sections.value[s]
        IN [sectionKey |-> section.sectionKey,
            label |-> section.label,
            resolved |-> [i \in 1..Len(section.numerals) |->
                            resolvedSlot(section.numerals[i],
                                         qualityOf(section.qualities, section.numerals[i]),
                                         key)]]]

\* the bars, each an array of resolved chords
resolveChart(progression, key) ==
    [b \in 1..Len(progression.chart.value) |->
        [c \in 1..Len(progression.chart.value[b]) |->
            resolvedSlot(progression.chart.value[b][c].n,
                         progression.chart.value[b][c].q, key)]]

RECURSIVE uniqueByName(_, _)
uniqueByName(chords, seen) ==
    IF Len(chords) = 0 THEN <<>>
    ELSE IF chords[1].chordName \in seen THEN uniqueByName(Tail(chords), seen)
    ELSE <<chords[1]>> \o uniqueByName(Tail(chords), seen \cup {chords[1].chordName})

\* getUniqueChords that keeps every occurrence
getUniqueChordsKeepAll(resolvedChords) == resolvedChords

getUniqueChords(resolvedChords) == uniqueByName(resolvedChords, {})

RECURSIVE flatten(_)
flatten(bars) == IF Len(bars) = 0 THEN <<>> ELSE bars[1] \o flatten(Tail(bars))

getUniqueChordsFromChart(resolvedBars) == uniqueByName(flatten(resolvedBars), {})

\* Progressions.getDatabaseKey(root): map[root] || root
Progressions_getDatabaseKey(root) ==
    LET map == (<<"C">> :> <<"C">>) @@ (<<"D","b">> :> Csharp) @@
               (<<"D">> :> <<"D">>) @@ (<<"E","b">> :> <<"E","b">>) @@
               (<<"E">> :> <<"E">>) @@ (<<"F">> :> <<"F">>) @@
               (<<"G","b">> :> Fsharp) @@ (<<"G">> :> <<"G">>) @@
               (<<"A","b">> :> <<"A","b">>) @@ (<<"A">> :> <<"A">>) @@
               (<<"B","b">> :> <<"B","b">>) @@ (<<"B">> :> <<"B">>)
    IN IF root \in DOMAIN map THEN map[root] ELSE root

\* Progressions.lookupChord(chordName, chordData): the chord entry with a
\* displayRoot added, or Null; chordName is a non-empty text
lookupChord(chordName, chordData) ==
    IF IsNull(chordData) THEN Null
    ELSE LET twoCharRoot == Len(chordName) > 1 /\ chordName[2] \in {"b", "#"}
             suffixStart == IF twoCharRoot THEN 2 ELSE 1
             root == normalizeToFlat(SubSeq(chordName, 1, suffixStart))
             sliced == SubSeq(chordName, suffixStart + 1, Len(chordName))
             suffix == IF sliced = <<>> THEN major ELSE sliced
             dbKey == Progressions_getDatabaseKey(root)
             keyChords == chordData.chords[dbKey]
             withDisplayRoot(chord) ==
                 [key |-> chord.key, suffix |-> chord.suffix,
                  positions |-> chord.positions, displayRoot |-> root]
             chord == find(keyChords, LAMBDA c : c.suffix = suffix)
             chordLower == find(keyChords,
                                LAMBDA c : toLowerCase(c.suffix) = toLowerCase(suffix))
         IN IF dbKey \notin DOMAIN chordData.chords THEN Null
            ELSE IF ~IsNull(chord) THEN withDisplayRoot(chord)
            ELSE IF ~IsNull(chordLower) THEN withDisplayRoot(chordLower)
            ELSE Null

getAlterations(quality) ==
    IF quality \in DOMAIN ALTERATIONS THEN ALTERATIONS[quality] ELSE <<>>

-----------------------------------------------------------------------------
(* app.js: the progression view *)

\* alterations = {}
EmptyMap == [slotKey \in {} |-> <<>>]

\* a clickable chord name: its slot key, what its click handler closes over,
\* and the name it shows
chordNameSpan(alts, slotKey, chord) ==
    LET displayQuality ==
          IF slotKey \in DOMAIN alts THEN alts[slotKey] ELSE chord.quality
    IN [slotKey |-> slotKey,
        root |-> chord.root,
        originalQuality |-> chord.quality,
        displayName |-> chord.root \o displayQuality]

\* the chords handed to getUniqueChords: chordName replaced by the shown name
displayedChords(resolved, spans) ==
    [i \in 1..Len(resolved) |->
        [numeral |-> resolved[i].numeral, root |-> resolved[i].root,
         quality |-> resolved[i].quality, chordName |-> spans[i].displayName]]

namesOf(chords) == [i \in 1..Len(chords) |-> chords[i].chordName]

\* slot keys are the array indices 0, 1, ...
renderProgressionNormal(resolved, alts) ==
    LET spans == [i \in 1..Len(resolved) |->
                    chordNameSpan(alts, numberToText(i - 1), resolved[i])]
    IN [spans |-> spans,
        diagrams |-> namesOf(getUniqueChords(displayedChords(resolved, spans)))]

\* `${sectionKey}-${index}`
sectionSlotKey(sectionKey, index) == sectionKey \o <<"-">> \o numberToText(index)

RECURSIVE sectionSpans(_, _)
sectionSpans(sections, alts) ==
    IF Len(sections) = 0 THEN <<>>
    ELSE [i \in 1..Len(sections[1].resolved) |->
            chordNameSpan(alts, sectionSlotKey(sections[1].sectionKey, i - 1),
                          sections[1].resolved[i])]
         \o sectionSpans(Tail(sections), alts)

RECURSIVE sectionChords(_)
sectionChords(sections) ==
    IF Len(sections) = 0 THEN <<>>
    ELSE sections[1].resolved \o sectionChords(Tail(sections))

renderSections(progression, key, alts) ==
    LET sections == resolveSections(progression, key)
        spans == sectionSpans(sections, alts)
    IN [spans |-> spans,
        diagrams |-> namesOf(getUniqueChords(
                        displayedChords(sectionChords(sections), spans)))]

\* the chart cells are plain text
renderChart(progression, key) ==
    [spans |-> <<>>,
     diagrams |-> namesOf(getUniqueChordsFromChart(resolveChart(progression, key)))]

\* the grid cells are plain text
renderBluesSummary(resolved) ==
    [spans |-> <<>>, diagrams |-> namesOf(getUniqueChords(resolved))]

\* the .progression-display element built for progression in key
displayProgression(progression, key, alts) ==
    LET body == IF progression.displayMode = "summary"
                THEN renderBluesSummary(resolveProgression(progression, key))
                ELSE IF progression.displayMode = "sections"
                THEN renderSections(progression, key, alts)
                ELSE IF progression.displayMode = "chart"
                THEN renderChart(progression, key)
                ELSE renderProgressionNormal(resolveProgression(progression, key), alts)
    IN [id |-> progression.id, key |-> key,
        spans |-> body.spans, diagrams |-> body.diagrams]

-----------------------------------------------------------------------------
(* The search modules over a loaded database *)

SearchIdle ==
    /\ csChordData = Null
    /\ rlChordData = Null
    /\ midiIndex = Null
    /\ query = <<>>
    /\ result = Null

ViewIdle ==
    /\ PROGRESSIONS = TEMPLATES
    /\ searchMode = "chord"
    /\ selectedProgression = Null
    /\ selectedKey = <<"C">>
    /\ alterations = EmptyMap
    /\ popup = Null
    /\ display = Null
    /\ lastEvent = "none"

ResolveIdle == resolveInput = Null /\ resolveOutput = Null
DegreesIdle == degInput = Null /\ degOutput = Null

\* the page before the DOMContentLoaded handler has run App.init
UiIdle ==
    /\ modal = [isOpen |-> FALSE, chord |-> Null, positions |-> <<>>,
                currentPositionIndex |-> 0, previouslyFocused |-> Null,
                positionIndicator |-> Null,
                prevDisabled |-> FALSE, nextDisabled |-> FALSE]
    /\ app = [isInitialized |-> FALSE, loading |-> FALSE, listening |-> FALSE,
              error |-> Null]
    /\ autocomplete = [isOpen |-> FALSE, suggestions |-> <<>>, selectedIndex |-> -1]
    /\ searchInput = [value |-> <<>>, focused |-> FALSE]
    /\ timers = {}

Init ==
    /\ db \in Databases
    /\ SearchIdle
    /\ ViewIdle
    /\ UiIdle
    /\ ResolveIdle
    /\ DegreesIdle

\* ChordSearch.init(chordData)
ChordSearch_init ==
    /\ IsNull(csChordData)
    /\ csChordData' = db
    /\ UNCHANGED <<db, rlChordData, midiIndex, query, result>>
    /\ UNCHANGED <<viewVars, resolveVars, degVars, uiVars>>

\* ReverseLookup.init(chordData), which App.init calls after ChordSearch.init
ReverseLookup_init ==
    /\ ~IsNull(csChordData)
    /\ IsNull(rlChordData)
    /\ rlChordData' = db
    /\ midiIndex' = buildIndex(db, midiIndex)
    /\ UNCHANGED <<db, csChordData, query, result>>
    /\ UNCHANGED <<viewVars, resolveVars, degVars, uiVars>>

\* a call of ReverseLookup.search(input)
SearchByNotes ==
    \E input \in { <<"C"," ","E"," ","G">>,
                   <<"C"," ","E"," ","G"," ","B">>,
                   <<"c",",","e",",","g",",","b",",","d">>,
                   <<"X">> } :
        /\ query' = input
        /\ result' = [kind |-> "notes", value |-> ReverseLookup_search(input, midiIndex)]
        /\ UNCHANGED <<db, csChordData, rlChordData, midiIndex>>
        /\ UNCHANGED <<viewVars, resolveVars, degVars, uiVars>>

\* a call of ChordSearch.search(input)
SearchByChordName ==
    \E input \in { <<"C">>, <<"C","s","u","s">>, <<"C","#","m","a","j","7">>,
                   <<"H","7">> } :
        /\ query' = input
        /\ result' = [kind |-> "chord", value |-> ChordSearch_search(input, csChordData)]
        /\ UNCHANGED <<db, csChordData, rlChordData, midiIndex>>
        /\ UNCHANGED <<viewVars, resolveVars, degVars, uiVars>>

\* a click on a .chord-button of the note search results: the name goes to the
\* search box, the mode becomes 'chord' and searchByChordName(chordName) runs
ClickChordButton ==
    /\ ~IsNull(result)
    /\ result.kind = "notes"
    /\ ~result.value.threw
    /\ \E i \in 1..Len(result.value.chords) :
          /\ query' = result.value.chords[i]
          /\ result' = [kind |-> "chord",
                        value |-> ChordSearch_search(result.value.chords[i],
                                                     csChordData)]
    /\ searchMode' = "chord"
    /\ UNCHANGED <<db, csChordData, rlChordData, midiIndex>>
    /\ UNCHANGED <<PROGRESSIONS, selectedProgression, selectedKey, alterations,
                   popup, display, lastEvent>>
    /\ UNCHANGED <<resolveVars, degVars, uiVars>>

Next ==
    \/ ClickChordButton
    \/ ChordSearch_init
    \/ ReverseLookup_init
    \/ SearchByNotes
    \/ SearchByChordName

Spec == Init /\ [][Next]_vars

-----------------------------------------------------------------------------
(* Claims about the reverse index *)

\* every voicing of the database that has MIDI notes: its chord name as the
\* index spells it and the set of its pitch classes
VoicedPositions ==
    UNION { UNION { { [name |-> indexedChordName(key, db.chords[key][c]),
                       pcs |-> {db.chords[key][c].positions[p].midi[i] % 12 :
                                  i \in 1..Len(db.chords[key][c].positions[p].midi)}] :
                      p \in { q \in 1..Len(db.chords[key][c].positions) :
                              Len(db.chords[key][c].positions[q].midi) > 0 } } :
                    c \in 1..Len(db.chords[key]) } :
            key \in DOMAIN db.chords }

\* the note names of a set of pitch classes, separated by spaces
NoteNamesOf(S) ==
    LET pcs == sortNumbers(S)
    IN join([i \in 1..Len(pcs) |-> PITCH_CLASS_TO_NOTE[pcs[i]]], <<" ">>)

ChordsFor(S) == Range(ReverseLookup_search(NoteNamesOf(S), midiIndex).chords)

IndexBuilt == ~IsNull(midiIndex)

\* C24: once the index is built, every index key is the comma-joined list of
\* strictly ascending pitch classes in 0..11; two voicings that sound the same
\* pitch-class set have their chord names under one key, whatever their root
\* and quality; and no later step, a search or a lookup, changes the index.
C24_KeysCanonicalAndIndexImmutable ==
    /\ [](IndexBuilt =>
            LET index == midiIndex.value
                number(t) == CHOOSE n \in 0..11 : numberToText(n) = t
                parts(k) == split(k, {","})
            IN /\ \A k \in DOMAIN index :
                     /\ \A i \in 1..Len(parts(k)) :
                           \E n \in 0..11 : numberToText(n) = parts(k)[i]
                     /\ \A i \in 1..(Len(parts(k)) - 1) :
                           number(parts(k)[i]) < number(parts(k)[i + 1])
               /\ \A v, w \in VoicedPositions :
                     v.pcs = w.pcs =>
                        \E k \in DOMAIN index :
                           /\ {v.name, w.name} \subseteq index[k]
                           /\ {number(parts(k)[i]) : i \in 1..Len(parts(k))} = v.pcs
                           /\ \A k2 \in DOMAIN index \ {k} :
                                 v.name \notin index[k2]
                                 \/ \E u \in VoicedPositions :
                                       u.name = v.name /\ u.pcs # v.pcs)
    /\ [][IndexBuilt => midiIndex' = midiIndex]_vars

\* C24 witness: the index is built, one of its keys holds the names of two
\* chords, and a note search has run since.
C24_Witness ==
    /\ IndexBuilt
    /\ \E k \in DOMAIN midiIndex.value : Cardinality(midiIndex.value[k]) >= 2
    /\ ~IsNull(result)
    /\ result.kind = "notes"
    /\ ~result.value.threw
    /\ Len(result.value.chords) >= 2

\* C27: a chord name that a note search returned, searched by name when its
\* button is clicked, resolves to the database entry that put the name in the
\* index: an entry of that name with a voicing that sounds exactly the queried
\* pitch classes.
C27_ResultNamesResolveToTheirEntries ==
    [][ClickChordButton =>
        LET found == result'.value
            queried == Range(result.value.pitchClasses)
        IN \E key \in DOMAIN db.chords : \E c \in 1..Len(db.chords[key]) :
              LET entry == db.chords[key][c]
              IN /\ indexedChordName(key, entry) = query'
                 /\ \E p \in 1..Len(entry.positions) :
                       /\ Len(entry.positions[p].midi) > 0
                       /\ {entry.positions[p].midi[i] % 12 :
                             i \in 1..Len(entry.positions[p].midi)} = queried
                 /\ found = entry]_vars

\* C1 as stated: the query on exactly S returns the voicing's chord name, and
\* the query on S plus any one extra pitch class never returns it.
C1_ExactAndNeverWithExtra ==
    IndexBuilt =>
        \A v \in VoicedPositions :
            /\ v.name \in ChordsFor(v.pcs)
            /\ \A x \in (0..11) \ v.pcs : v.name \notin ChordsFor(v.pcs \cup {x})

\* C1 amended: the query on exactly S returns the voicing's chord name, and
\* the query on S plus one extra pitch class returns that chord name exactly
\* when another voicing of the same chord name sounds exactly S plus that
\* pitch class.
C1_ExactSetMatching ==
    IndexBuilt =>
        \A v \in VoicedPositions :
            /\ v.name \in ChordsFor(v.pcs)
            /\ \A x \in (0..11) \ v.pcs :
                  v.name \in ChordsFor(v.pcs \cup {x})
                  <=> \E w \in VoicedPositions : w.name = v.name /\ w.pcs = v.pcs \cup {x}

\* C1 witness: the index is built and a query on S plus one pitch class finds
\* other chords but not the chord of the voicing that sounds S.
C1_Witness ==
    /\ IndexBuilt
    /\ \E v \in VoicedPositions : \E x \in (0..11) \ v.pcs :
          /\ ChordsFor(v.pcs \cup {x}) # {}
          /\ v.name \notin ChordsFor(v.pcs \cup {x})

\* C2: every chord name a note search returns has a voicing whose pitch-class
\* set is exactly the queried set; the list ascends strictly in code-unit
\* (alphabetical) order, so it has no duplicates; and "C E G B" returns exactly
\* [Cmaj7] when Cmaj7 alone has a voicing with the set {0, 4, 7, 11}.
C2_ExactSortedDistinct ==
    (~IsNull(result) /\ result.kind = "notes" /\ ~result.value.threw) =>
        LET r == result.value
        IN /\ \A i \in 1..Len(r.chords) :
                 \E v \in VoicedPositions :
                     v.name = r.chords[i] /\ v.pcs = Range(r.pitchClasses)
           /\ \A i \in 1..Len(r.chords) : \A j \in 1..Len(r.chords) :
                 i < j => textLess(r.chords[i], r.chords[j])
           /\ ( /\ IndexBuilt
                /\ query = <<"C"," ","E"," ","G"," ","B">>
                /\ {v.name : v \in {w \in VoicedPositions : w.pcs = {0, 4, 7, 11}}}
                      = {<<"C">> \o maj7} )
              => r.chords = << <<"C">> \o maj7 >>

\* C2 witness: a note search has returned two or more chord names.
C2_Witness ==
    ~IsNull(result) /\ result.kind = "notes" /\ Len(result.value.chords) >= 2

\* some note spelling of the input text converts to a pitch class
YieldsParseableNote(input) ==
    /\ Len(input) > 0
    /\ LET spellings == noteTokens(toUpperCase(trim(input)))
       IN \E i \in 1..Len(spellings) : ~IsNull(normalizeNoteName(spellings[i]))

\* C15: with the index built, ReverseLookup.search reports the invalid-input
\* error, with an empty chord list, exactly when the input yields no parseable
\* note; when notes parse but no voicing sounds exactly that pitch-class set
\* it returns an empty chord list and no error; and it does not throw.
C15_ErrorOnlyWithoutNotes ==
    [][(SearchByNotes /\ IndexBuilt) =>
        LET out == result'.value
        IN /\ ~out.threw
           /\ out.error = invalidNoteInput <=> ~YieldsParseableNote(query')
           /\ ~YieldsParseableNote(query') => out.chords = <<>>
           /\ ( /\ YieldsParseableNote(query')
                /\ ~\E v \in VoicedPositions : v.pcs = Range(out.pitchClasses) )
              => out.chords = <<>> /\ out.error = noError]_vars

\* a note search over the built index found notes but no chord
C15_Witness ==
    /\ IndexBuilt
    /\ ~IsNull(result) /\ result.kind = "notes" /\ ~result.value.threw
    /\ result.value.pitchClasses # <<>>
    /\ result.value.chords = <<>>
    /\ result.value.error = noError

\* C16: until the database is loaded and the reverse index built, a call of
\* ChordSearch.search or ReverseLookup.search is rejected as not initialized:
\* it neither throws, nor reports another error, nor computes a result.
C16_RejectsUntilInitialized ==
    [][/\ (SearchByChordName /\ IsNull(csChordData)) => IsNull(result'.value)
       /\ (SearchByNotes /\ ~IndexBuilt) =>
             /\ ~result'.value.threw
             /\ result'.value.error \notin {invalidNoteInput, noError}
             /\ result'.value.chords = <<>>]_vars

\* C3: for every chord entry of the database, parsing its flat-spelled root
\* followed by its quality gives back that root and that quality.
C3_RoundTrip ==
    ~IsNull(csChordData) =>
    \A key \in DOMAIN db.chords : \A c \in 1..Len(db.chords[key]) :
        parseChordName(DATABASE_KEY_TO_DISPLAY[key] \o db.chords[key][c].suffix,
                       csChordData)
        = [root |-> DATABASE_KEY_TO_DISPLAY[key], suffix |-> db.chords[key][c].suffix]

-----------------------------------------------------------------------------
(* ChordSearch.parseChordName over root spellings and quality texts *)

ParseLeads == {<<>>, <<" ">>}
ParseQualities ==
    { <<>>, <<"m","7">>, <<"M","7">>, <<"m","a","j","7">>, sus,
      <<"b","5">>, <<"#","5">>, <<" ","m"," ","7">>, <<"m","M","a","j","7">>,
      <<"x","y">>, <<"c","o","n","s","t","r","u","c","t","o","r">>,
      <<"M","6">>, <<"M","9">>, <<"M","1","1">>, <<"M","1","3">>,
      <<"m","a","j","6">>, <<"m","a","j","9">>, <<"m","a","j","1","1">>,
      <<"m","a","j","1","3">> }

\* the database the parser is initialised with
ParseDatabase ==
    makeDatabase(<< [dbKey |-> <<"C">>, suffix |-> maj7,
                     position |-> [frets |-> <<-1, 3, 2, 0, 0, 0>>,
                                   midi |-> <<48, 52, 55, 59, 64>>]] >>)

\* the longest note list typed
MaxNotes == 3

\* the texts typed: chord names, lists of up to MaxNotes note names written
\* with each separator or none, and single note spellings
InitParse ==
    /\ db = ParseDatabase
    /\ csChordData = Null
    /\ rlChordData = Null
    /\ midiIndex = Null
    /\ LET names == {<<"C">>, <<"E">>, <<"G">>, <<"B">>, <<"B","b">>, <<"F","#">>}
           lists == UNION {[1..n -> names] : n \in 1..MaxNotes}
           separators == {<<" ">>, <<",", " ">>, <<"-">>, <<>>}
           spellings == {<<"C","x">>, <<"C","#","#">>, <<"H">>, <<"H","b">>,
                         <<"c","s","h","a","r","p">>, <<"D","f","l","a","t">>,
                         <<"e",FlatSign>>, <<"A",SharpSign>>, <<"G","b","b">>,
                         <<"c","o","n","s","t","r","u","c","t","o","r">>}
           letters == {"A", "B", "C", "D", "E", "F", "G", "H", "f", "g", "7"}
           modifiers == {<<>>, <<"#">>, <<"b">>, <<SharpSign>>, <<FlatSign>>}
           chordNames == { lead \o <<letter>> \o modifier \o quality :
                             lead \in ParseLeads, letter \in letters,
                             modifier \in modifiers, quality \in ParseQualities }
           runs == {<<first, "b", next>> :
                      first \in {"A","B","C","D","E","F","G"}, next \in {"C", "E"}}
       IN query \in chordNames \cup spellings \cup runs
                    \cup {spelling \o <<" ", "E">> : spelling \in spellings}
                    \cup {join(list, sep) : list \in lists, sep \in separators}
    /\ result = Null
    /\ ViewIdle
    /\ UiIdle
    /\ ResolveIdle
    /\ DegreesIdle

\* a call of ChordSearch.parseChordName(input) on the text typed
ParseChordName ==
    /\ result' = [kind |-> "parse", value |-> parseChordName(query, csChordData)]
    /\ UNCHANGED <<db, csChordData, rlChordData, midiIndex, query>>
    /\ UNCHANGED <<viewVars, resolveVars, degVars, uiVars>>

\* a call of ReverseLookup.parseNoteInput(input) on the text typed
ParseNoteInput ==
    /\ result' = [kind |-> "notes", value |-> parseNoteInput(query)]
    /\ UNCHANGED <<db, csChordData, rlChordData, midiIndex, query>>
    /\ UNCHANGED <<viewVars, resolveVars, degVars, uiVars>>

\* a call of ReverseLookup.normalizeNoteName(note) on the text typed
NormalizeNoteName ==
    /\ result' = [kind |-> "note", value |-> normalizeNoteName(query)]
    /\ UNCHANGED <<db, csChordData, rlChordData, midiIndex, query>>
    /\ UNCHANGED <<viewVars, resolveVars, degVars, uiVars>>

\* a call of Progressions.normalizeToFlat(note) on the text typed
NormalizeToFlat ==
    /\ result' = [kind |-> "flat", value |-> normalizeToFlat(query)]
    /\ UNCHANGED <<db, csChordData, rlChordData, midiIndex, query>>
    /\ UNCHANGED <<viewVars, resolveVars, degVars, uiVars>>

\* a call of ReverseLookup.parseCondensedNotes(input) on the text typed
ParseCondensedNotes ==
    /\ result' = [kind |-> "condensed", value |-> parseCondensedNotes(query)]
    /\ UNCHANGED <<db, csChordData, rlChordData, midiIndex, query>>
    /\ UNCHANGED <<viewVars, resolveVars, degVars, uiVars>>

NextParse ==
    \/ ParseCondensedNotes
    \/ NormalizeToFlat
    \/ NormalizeNoteName
    \/ ChordSearch_init
    \/ ParseChordName
    \/ ParseNoteInput

SpecParse == InitParse /\ [][NextParse]_vars

FlatSpellings ==
    { <<"C">>, <<"D","b">>, <<"D">>, <<"E","b">>, <<"E">>, <<"F">>,
      <<"G","b">>, <<"G">>, <<"A","b">>, <<"A">>, <<"B","b">>, <<"B">> }

\* a letter with a sharp, and the next letter, which with a flat is the same pitch
EnharmonicPairs ==
    { <<"C","D">>, <<"D","E">>, <<"F","G">>, <<"G","A">>, <<"A","B">>,
      <<"c","d">>, <<"d","e">>, <<"f","g">>, <<"g","a">>, <<"a","b">> }

\* C4: a parse that recognizes the root returns one of the 12 flat spellings;
\* an input spelled with a sharp root returns what the same input spelled with
\* the enharmonic flat root returns; "F#m7" gives root Gb, quality m7.
C4_FlatRootEnharmonic ==
    [][(~IsNull(result') /\ result'.kind = "parse" /\ ParseChordName
          /\ ~IsNull(result'.value)) =>
        /\ result'.value.root \in FlatSpellings
        /\ \A pair \in EnharmonicPairs : \A lead \in ParseLeads :
           \A sharp \in {"#", SharpSign} : \A flat \in {"b", FlatSign} :
           \A quality \in ParseQualities :
              query = lead \o <<pair[1], sharp>> \o quality
                 => result'.value
                      = parseChordName(lead \o <<pair[2], flat>> \o quality, csChordData)
        /\ query = <<"F","#","m","7">>
              => result'.value = [root |-> <<"G","b">>, suffix |-> <<"m","7">>]]_vars

\* C4 witness: "F#m7" has been parsed with the database loaded, to (Gb, m7).
C4_Witness ==
    /\ ~IsNull(csChordData)
    /\ query = <<"F","#","m","7">>
    /\ ~IsNull(result) /\ result.kind = "parse"
    /\ result.value = [root |-> <<"G","b">>, suffix |-> <<"m","7">>]

\* C14: parseChordName returns null exactly when the trimmed input is empty or
\* its first character is no letter A-G in either case; otherwise it returns a
\* (root, quality) pair, and a quality token that neither the alias table nor
\* the database's quality list has (in the case typed or in lowercase) is
\* returned unchanged apart from whitespace removal.
C14_NullOnlyForRootAndQualityPassesThrough ==
    [][(~IsNull(result') /\ result'.kind = "parse" /\ ParseChordName) =>
        LET chord == trim(query)
            out == result'.value
            token == removeWhitespace(slice(chord, rootAndStart(chord).suffixStart))
            known == \/ token \in DOMAIN SUFFIX_ALIASES
                     \/ toLowerCase(token) \in DOMAIN SUFFIX_ALIASES
                     \/ /\ ~IsNull(csChordData)
                        /\ \/ token \in Range(csChordData.suffixes)
                           \/ toLowerCase(token) \in Range(csChordData.suffixes)
        IN /\ IsNull(out) <=>
                \/ chord = <<>>
                \/ chord[1] \notin {"A","B","C","D","E","F","G",
                                     "a","b","c","d","e","f","g"}
           /\ (~IsNull(out) /\ ~known) => out.suffix = token]_vars

\* a letter A-G, alone or followed by '#' or 'b'
IsNoteName(t) ==
    /\ Len(t) \in {1, 2}
    /\ t[1] \in {"A","B","C","D","E","F","G"}
    /\ Len(t) = 2 => t[2] \in {"#", "b"}

\* C18: for a list of note names typed space-separated, parseNoteInput returns
\* the same pitch classes as for the same list typed comma-separated,
\* dash-separated, and as a condensed run.
C18_SameSetInEveryWriting ==
    [][(~IsNull(result') /\ result'.kind = "notes" /\ ParseNoteInput) =>
        LET names == split(query, {" "})
        IN (\A i \in 1..Len(names) : IsNoteName(names[i])) =>
              /\ result'.value = parseNoteInput(join(names, <<",", " ">>))
              /\ result'.value = parseNoteInput(join(names, <<"-">>))
              /\ result'.value = parseNoteInput(join(names, <<>>))]_vars

\* the letter of a spelling is none of A-G, or the text after it is neither
\* empty nor a sharp or flat accidental ('#', 'b', the two signs, "sharp", "flat")
IsInvalidSpelling(t) ==
    \/ t = <<>>
    \/ toUpperCaseChar(t[1]) \notin {"A","B","C","D","E","F","G"}
    \/ /\ Len(t) > 1
       /\ toLowerCase(slice(t, 1)) \notin
             {<<"#">>, <<SharpSign>>, <<"s","h","a","r","p">>,
              <<"b">>, <<FlatSign>>, <<"f","l","a","t">>}

\* C20: a note spelling whose letter is not A-G, or whose text after the
\* letter is no recognized sharp or flat accidental, is converted to no note
\* name by normalizeNoteName, and typed before " E" it adds nothing to the
\* pitch classes parseNoteInput returns, which are those of E alone.
C20_InvalidSpellingYieldsNoPitchClass ==
    [][/\ ( /\ ~IsNull(result')
            /\ result'.kind = "note"
            /\ NormalizeNoteName
            /\ IsInvalidSpelling(trim(query)) )
            => IsNull(result'.value)
       /\ \A n \in 1..Len(query) :
            ( /\ ~IsNull(result')
              /\ result'.kind = "notes"
              /\ ParseNoteInput
              /\ query = SubSeq(query, 1, n) \o <<" ", "E">>
              /\ ~includes(query, ",")
              /\ ~includes(SubSeq(query, 1, n), " ")
              /\ IsInvalidSpelling(SubSeq(query, 1, n)) )
            => result'.value = Some(<<4>>)]_vars

\* C21: normalizeToFlat returns Db, Eb, Gb, Ab, Bb for C#, D#, F#, G#, A#,
\* returns every other input unchanged, and applied to its own result returns
\* that result.
C21_FiveSharpsElseUnchangedIdempotent ==
    [][(~IsNull(result') /\ result'.kind = "flat" /\ NormalizeToFlat) =>
        LET out == result'.value
        IN /\ query = <<"C","#">> => out = <<"D","b">>
           /\ query = <<"D","#">> => out = <<"E","b">>
           /\ query = <<"F","#">> => out = <<"G","b">>
           /\ query = <<"G","#">> => out = <<"A","b">>
           /\ query = <<"A","#">> => out = <<"B","b">>
           /\ query \notin {<<"C","#">>, <<"D","#">>, <<"F","#">>, <<"G","#">>,
                             <<"A","#">>} => out = query
           /\ normalizeToFlat(out) = out]_vars

\* C22: in a condensed run, "b" between two note letters is the note B; "b"
\* ending the run after D, E, G, A or B is a flat of that letter; and "b" after
\* C or F is the note B.
C22_FlatOrNoteB ==
    [][( /\ ~IsNull(result')
         /\ result'.kind = "condensed"
         /\ ParseCondensedNotes
         /\ Len(query) \in {2, 3}
         /\ query[1] \in {"A","B","C","D","E","F","G"}
         /\ query[2] = "b"
         /\ Len(query) = 3 => query[3] \in {"A","B","C","D","E","F","G"} )
       => LET notes == result'.value
              first == <<query[1]>>
          IN /\ Len(query) = 3 => notes = <<first, <<"B">>, <<query[3]>>>>
             /\ (Len(query) = 2 /\ query[1] \in {"D","E","G","A","B"})
                   => notes = <<first \o <<"b">>>>
             /\ (Len(query) = 2 /\ query[1] \in {"C","F"})
                   => notes = <<first, <<"B">>>>]_vars

\* C28: for a root and n in {6, 7, 9, 11, 13}, parseChordName(root + "M" + n)
\* returns what parseChordName(root + "maj" + n) returns, and its quality is
\* not of the minor family (minor, or m... other than maj...).
C28_UpperMIsMajor ==
    [][\A ext \in {<<"6">>, <<"7">>, <<"9">>, <<"1","1">>, <<"1","3">>} :
       \A n \in 1..2 :
         ( /\ ~IsNull(result')
           /\ result'.kind = "parse"
           /\ ParseChordName
           /\ Len(query) = n + 1 + Len(ext)
           /\ query[1] \in {"A","B","C","D","E","F","G"}
           /\ n = 2 => query[2] \in {"#", "b"}
           /\ slice(query, n) = <<"M">> \o ext )
         => /\ result'.value
                 = parseChordName(SubSeq(query, 1, n) \o <<"m","a","j">> \o ext,
                                  csChordData)
            /\ LET suffix == result'.value.suffix
               IN ~( \/ suffix = minor
                     \/ isPrefix(<<"m">>, suffix) /\ ~isPrefix(<<"m","a","j">>, suffix) )]_vars

-----------------------------------------------------------------------------
(* Progressions.resolveRoot and the three resolve functions over templates,
   numerals and keys *)

\* a template with a numeral that INTERVALS does not have, in each of its forms
T_custom ==
      [ id |-> "custom",
        category |-> "jazz",
        displayMode |-> "undefined",
        numerals |-> Some(<< <<"I">>, <<"I","X">>, <<"V","7">> >>),
        qualities |-> Some((<<"I">> :> maj7) @@ (<<"I","X">> :> <<"7">>)),
        sections |-> Some(<<
            [sectionKey |-> <<"A">>, label |-> "A Section",
              numerals |-> << <<"I","X">>, <<"V">> >>,
              qualities |-> (<<"I","X">> :> <<"m","7">>) @@ (<<"V">> :> <<"7">>)] >>),
        chart |-> Some(<< << [n |-> <<"I">>, q |-> maj7] >>,
                          << [n |-> <<"I","X">>, q |-> <<"7">>],
                             [n |-> <<"V">>, q |-> <<"7">>] >> >>) ]


InitResolve ==
    /\ LET position == [frets |-> <<-1, 3, 2, 0, 1, 0>>, midi |-> <<>>]
           database(suffixes) ==
               [suffixes |-> suffixes,
                chords |-> [k \in {DATABASE_KEY_MAP[n] : n \in DOMAIN DATABASE_KEY_MAP} |->
                              [i \in 1..Len(suffixes) |->
                                 [key |-> keyProperty(k), suffix |-> suffixes[i],
                                  positions |-> <<position>>]]]]
       IN db = database(<<major, minor, <<"7">>, <<"m","7">>, maj7>>)
    /\ SearchIdle
    /\ ViewIdle
    /\ UiIdle
    /\ LET ResolveTemplates == {TEMPLATES[id] : id \in DOMAIN TEMPLATES} \cup {T_custom}
           ResolveKeys == Range(KEYS) \cup {<<"C","#">>, <<"F","#">>, <<"H">>}
           ResolveNumerals == DOMAIN INTERVALS \cup {<<"I","X">>, <<"V","7">>}
       IN resolveInput \in [progression : ResolveTemplates, key : ResolveKeys,
                            numeral : ResolveNumerals]
    /\ resolveOutput = Null
    /\ DegreesIdle

\* a call that returned value
returned(fn, value) == [fn |-> fn, threw |-> FALSE, value |-> Some(value)]
\* a call that raised a TypeError
threw(fn) == [fn |-> fn, threw |-> TRUE, value |-> Null]

\* Progressions.resolveRoot(numeral, key)
ResolveRoot ==
    /\ resolveOutput' = returned("resolveRoot",
                                 resolveRoot(resolveInput.numeral, resolveInput.key))
    /\ UNCHANGED <<searchVars, viewVars, resolveInput, degVars, uiVars>>

\* Progressions.resolveProgression(progression, key)
ResolveProgression ==
    /\ resolveOutput' = returned("resolveProgression",
                                 resolveProgression(resolveInput.progression,
                                                    resolveInput.key))
    /\ UNCHANGED <<searchVars, viewVars, resolveInput, degVars, uiVars>>

\* Progressions.resolveSections(progression, key); Object.entries(undefined)
\* raises a TypeError
ResolveSections ==
    /\ resolveOutput' =
          IF IsNull(resolveInput.progression.sections) THEN threw("resolveSections")
          ELSE returned("resolveSections",
                        resolveSections(resolveInput.progression, resolveInput.key))
    /\ UNCHANGED <<searchVars, viewVars, resolveInput, degVars, uiVars>>

\* Progressions.resolveChart(progression, key); undefined.map raises a TypeError
ResolveChart ==
    /\ resolveOutput' =
          IF IsNull(resolveInput.progression.chart) THEN threw("resolveChart")
          ELSE returned("resolveChart",
                        resolveChart(resolveInput.progression, resolveInput.key))
    /\ UNCHANGED <<searchVars, viewVars, resolveInput, degVars, uiVars>>

\* App.createProgressionDiagramCard(chord.chordName) for each unique chord of the
\* displayed progression: the card's name, the chord lookupChord returned, and
\* whether the card shows the "Diagram unavailable" placeholder
CreateProgressionDiagramCards ==
    /\ resolveInput.key \in Range(KEYS)
    /\ resolveInput.progression.id \in DOMAIN TEMPLATES
    /\ LET names == displayProgression(resolveInput.progression, resolveInput.key,
                                       EmptyMap).diagrams
           card(chordName) ==
               LET chord == lookupChord(chordName, db)
               IN [chordName |-> chordName, chord |-> chord,
                   unavailable |-> IsNull(chord) \/ Len(chord.positions) = 0]
       IN resolveOutput' = returned("createProgressionDiagramCard",
                                    [i \in 1..Len(names) |-> card(names[i])])
    /\ UNCHANGED <<searchVars, viewVars, resolveInput, degVars, uiVars>>

\* Progressions.getUniqueChords(resolvedChords) on the resolved chords of the
\* progression, those of all its sections when it has sections
GetUniqueChords ==
    /\ LET resolvedChords ==
               IF IsNull(resolveInput.progression.sections)
               THEN resolveProgression(resolveInput.progression, resolveInput.key)
               ELSE sectionChords(resolveSections(resolveInput.progression,
                                                  resolveInput.key))
       IN resolveOutput' = returned("getUniqueChords",
                                    [chords |-> resolvedChords,
                                     unique |-> getUniqueChords(resolvedChords)])
    /\ UNCHANGED <<searchVars, viewVars, resolveInput, degVars, uiVars>>

\* Progressions.getUniqueChordsFromChart(resolvedBars) on the resolved chart
GetUniqueChordsFromChart ==
    /\ ~IsNull(resolveInput.progression.chart)
    /\ LET resolvedBars == resolveChart(resolveInput.progression, resolveInput.key)
       IN resolveOutput' = returned("getUniqueChordsFromChart",
                                    [chords |-> flatten(resolvedBars),
                                     unique |-> getUniqueChordsFromChart(resolvedBars)])
    /\ UNCHANGED <<searchVars, viewVars, resolveInput, degVars, uiVars>>

NextResolve ==
    \/ GetUniqueChords
    \/ GetUniqueChordsFromChart
    \/ ResolveRoot
    \/ ResolveProgression
    \/ ResolveSections
    \/ ResolveChart
    \/ CreateProgressionDiagramCards

SpecResolve == InitResolve /\ [][NextResolve]_vars

\* C17: for a built-in progression in one of the 12 keys, every unique resolved
\* chord name gets a card; when ChordSearch.search finds the name, lookupChord
\* returns that same database entry and the card shows its diagram, and when
\* search finds nothing lookupChord returns null and the card shows the
\* placeholder.
C17_LookupFindsWhatSearchFinds ==
    (~IsNull(resolveOutput) /\ resolveOutput.fn = "createProgressionDiagramCard") =>
        LET cards == resolveOutput.value.value
            names == displayProgression(resolveInput.progression, resolveInput.key,
                                        EmptyMap).diagrams
        IN /\ Len(cards) = Len(names)
           /\ \A i \in 1..Len(cards) :
                 LET found == ChordSearch_search(names[i], db)
                 IN /\ cards[i].chordName = names[i]
                    /\ ~IsNull(found) =>
                          /\ ~IsNull(cards[i].chord)
                          /\ cards[i].chord.key = found.key
                          /\ cards[i].chord.suffix = found.suffix
                          /\ cards[i].chord.positions = found.positions
                          /\ ~cards[i].unavailable
                    /\ IsNull(found) =>
                          IsNull(cards[i].chord) /\ cards[i].unavailable

\* C19: getUniqueChords and getUniqueChordsFromChart return, for the resolved
\* chords (the bars read in order), one chord per distinct chord name, namely
\* its first occurrence, in the order of first occurrence, and no chord whose
\* name the input lacks.
C19_UniqueInFirstOccurrenceOrder ==
    ( /\ ~IsNull(resolveOutput)
      /\ resolveOutput.fn \in {"getUniqueChords", "getUniqueChordsFromChart"} ) =>
        LET chords == resolveOutput.value.value.chords
            unique == resolveOutput.value.value.unique
            first(name) == CHOOSE i \in 1..Len(chords) :
                              /\ chords[i].chordName = name
                              /\ \A j \in 1..(i-1) : chords[j].chordName # name
        IN /\ {unique[i].chordName : i \in 1..Len(unique)}
                 = {chords[i].chordName : i \in 1..Len(chords)}
           /\ \A i, j \in 1..Len(unique) :
                 i # j => unique[i].chordName # unique[j].chordName
           /\ \A i \in 1..Len(unique) : unique[i] = chords[first(unique[i].chordName)]
           /\ \A i, j \in 1..Len(unique) :
                 i < j => first(unique[i].chordName) < first(unique[j].chordName)

\* C19 witness: getUniqueChords has returned at least two chords from a
\* sequence in which a name after the first recurs.
C19_Witness ==
    /\ ~IsNull(resolveOutput)
    /\ resolveOutput.fn = "getUniqueChords"
    /\ LET chords == resolveOutput.value.value.chords
           unique == resolveOutput.value.value.unique
       IN /\ Len(unique) >= 2
          /\ Len(unique) < Len(chords)
          /\ \E i, j \in 2..Len(chords) :
                i < j /\ chords[i].chordName = chords[j].chordName
                      /\ chords[i].chordName # chords[1].chordName

\* the chord names of an array of resolved slots
chordNames(resolved) == [i \in 1..Len(resolved) |-> resolved[i].chordName]

\* the root the claim names: KEYS[(index of key + offset of numeral) mod 12]
RootByOffset(numeral, key) ==
    KEYS[((indexOf(KEYS, key) + INTERVALS[numeral]) % 12) + 1]

\* C5: for each of the 12 keys and every numeral of INTERVALS, resolveRoot
\* returns KEYS[(index of key + offset) mod 12], and the key itself for "I";
\* resolveProgression on a template returns one slot per numeral, in order,
\* named root + default quality; "ii-V-I" in Bb gives Cm7, F7, Bbmaj7; and a
\* repeated call on the same arguments returns the same value.
C5_ResolveByOffset ==
    /\ [](~IsNull(resolveOutput) =>
           LET numeral == resolveInput.numeral
               key == resolveInput.key
               progression == resolveInput.progression
               out == resolveOutput
           IN /\ ( /\ out.fn = "resolveRoot"
                   /\ key \in Range(KEYS)
                   /\ numeral \in DOMAIN INTERVALS )
                 => /\ out.value.value = RootByOffset(numeral, key)
                    /\ numeral = <<"I">> => out.value.value = key
              /\ ( /\ out.fn = "resolveProgression"
                   /\ progression.id \in DOMAIN TEMPLATES
                   /\ ~IsNull(progression.numerals)
                   /\ key \in Range(KEYS) )
                 => /\ Len(out.value.value) = Len(progression.numerals.value)
                    /\ \A i \in 1..Len(progression.numerals.value) :
                          LET n == progression.numerals.value[i]
                              slot == out.value.value[i]
                          IN /\ slot.numeral = n
                             /\ slot.root = RootByOffset(n, key)
                             /\ slot.chordName
                                  = RootByOffset(n, key) \o progression.qualities.value[n]
              /\ ( /\ out.fn = "resolveProgression"
                   /\ progression.id = "ii-V-I"
                   /\ key = <<"B","b">> )
                 => chordNames(out.value.value)
                      = << <<"C","m","7">>, <<"F","7">>, <<"B","b">> \o maj7 >>)
    /\ [][(~IsNull(resolveOutput) /\ resolveOutput'.fn = resolveOutput.fn)
             => resolveOutput' = resolveOutput]_vars

\* C5 witness: "ii-V-I" has been resolved in Bb to Cm7, F7, Bbmaj7.
C5_Witness ==
    /\ ~IsNull(resolveOutput)
    /\ resolveOutput.fn = "resolveProgression"
    /\ resolveInput.progression.id = "ii-V-I"
    /\ resolveInput.key = <<"B","b">>
    /\ chordNames(resolveOutput.value.value)
         = << <<"C","m","7">>, <<"F","7">>, <<"B","b">> \o maj7 >>

\* the numerals of every slot of a template, in any of its three forms
numeralsOf(progression) ==
    (IF IsNull(progression.numerals) THEN {}
     ELSE Range(progression.numerals.value))
    \cup (IF IsNull(progression.sections) THEN {}
          ELSE UNION {Range(progression.sections.value[s].numerals) :
                        s \in 1..Len(progression.sections.value)})
    \cup (IF IsNull(progression.chart) THEN {}
          ELSE UNION {{progression.chart.value[b][c].n :
                         c \in 1..Len(progression.chart.value[b])} :
                        b \in 1..Len(progression.chart.value)})

\* the resolved chords a resolve call returned, over all sections and bars
resolvedChords(out) ==
    IF out.threw THEN {}
    ELSE IF out.fn = "resolveProgression" THEN Range(out.value.value)
    ELSE IF out.fn = "resolveSections"
    THEN UNION {Range(out.value.value[s].resolved) : s \in 1..Len(out.value.value)}
    ELSE IF out.fn = "resolveChart"
    THEN UNION {Range(out.value.value[b]) : b \in 1..Len(out.value.value)}
    ELSE {}

\* C6: when the template has a numeral that INTERVALS lacks (digits aside), or
\* the key is none of the 12 keys (sharps aside), resolveProgression,
\* resolveSections and resolveChart return no resolved chord for any slot.
C6_FailsAsAWhole ==
    ( /\ ~IsNull(resolveOutput)
      /\ resolveOutput.fn \in {"resolveProgression", "resolveSections", "resolveChart"}
      /\ \/ normalizeToFlat(resolveInput.key) \notin Range(KEYS)
         \/ \E n \in numeralsOf(resolveInput.progression) :
               stripDigits(n) \notin DOMAIN INTERVALS )
    => resolvedChords(resolveOutput) = {}

-----------------------------------------------------------------------------
(* The progression view: tabs, progression buttons, key selector, chord names
   and the alteration popup *)

MaxAlterations == 1

\* the keys offered by the key selector
ViewKeys == {<<"C">>, <<"B","b">>}

\* Autocomplete.close(): the suggestions stay
Autocomplete_close(a) == [a EXCEPT !.isOpen = FALSE, !.selectedIndex = -1]

\* Autocomplete.handleInput() on the input's value, App.searchMode being mode;
\* trimmed is value.trim()
handleInput(a, value, mode, chordData) ==
    CHOOSE after \in
        { IF Len(trimmed) = 0 THEN Autocomplete_close(a)
          ELSE IF mode # "chord" THEN Autocomplete_close(a)
          ELSE [isOpen |-> TRUE,
                suggestions |-> getSuggestions(trimmed, chordData),
                selectedIndex |-> -1] : trimmed \in {trim(value)} } : TRUE

\* Autocomplete.handleFocus()
handleFocus(a, value) ==
    IF Len(trim(value)) > 0 /\ Len(a.suggestions) > 0
    THEN [a EXCEPT !.isOpen = TRUE]
    ELSE a

\* App.handleSearch() on the input's value: the text searched for and what is
\* shown, old being those of the search before; trimmed is value.trim()
handleSearch(value, mode, chordData, index, old) ==
    CHOOSE after \in
        { IF Len(trimmed) = 0 THEN [query |-> old.query, result |-> Null]
          ELSE IF mode = "chord"
          THEN [query |-> trimmed,
                result |-> [kind |-> "chord",
                            value |-> ChordSearch_search(trimmed, chordData)]]
          ELSE [query |-> trimmed,
                result |-> [kind |-> "notes",
                            value |-> ReverseLookup_search(trimmed, index)]] :
          trimmed \in {trim(value)} } : TRUE

InitView ==
    /\ db = ParseDatabase
    /\ SearchIdle
    /\ ViewIdle
    /\ ResolveIdle
    /\ DegreesIdle
    /\ modal = [isOpen |-> FALSE, chord |-> Null, positions |-> <<>>,
                currentPositionIndex |-> 0, previouslyFocused |-> Null,
                positionIndicator |-> Null,
                prevDisabled |-> FALSE, nextDisabled |-> FALSE]
    /\ app = [isInitialized |-> TRUE, loading |-> FALSE, listening |-> TRUE,
              error |-> Null]
    /\ autocomplete = [isOpen |-> FALSE, suggestions |-> <<>>, selectedIndex |-> -1]
    /\ searchInput = [value |-> <<>>, focused |-> FALSE]
    /\ timers = {}

\* the selected template, as the handlers read it
selectedTemplate == PROGRESSIONS[selectedProgression.id]

\* what displayProgressionSelector and the handlers leave in #results
redisplay(selected, key, alts) ==
    IF IsNull(selected) THEN Null
    ELSE displayProgression(PROGRESSIONS[selected.id], key, alts)

\* a tab click: setSearchMode(mode), then the document click listener
SetSearchMode ==
    \E mode \in {"chord", "notes", "progressions"} :
        /\ app.listening
        /\ searchMode # mode
        /\ searchMode' = mode
        /\ display' = IF mode = "progressions"
                      THEN redisplay(selectedProgression, selectedKey, alterations)
                      ELSE Null
        /\ popup' = Null
        /\ lastEvent' = "none"
        /\ IF mode = "progressions"
           THEN /\ autocomplete' = Autocomplete_close(autocomplete)
                /\ searchInput' = [searchInput EXCEPT !.focused = FALSE]
                /\ UNCHANGED <<query, result>>
           ELSE \* searchInput.focus() raises a focus event unless the input
                \* has the focus; the tabs are outside the input's wrapper, so
                \* the document's click listener closes the dropdown
                /\ autocomplete' =
                     Autocomplete_close(
                         IF searchInput.focused THEN Autocomplete_close(autocomplete)
                         ELSE handleFocus(Autocomplete_close(autocomplete),
                                          searchInput.value))
                /\ searchInput' = [searchInput EXCEPT !.focused = TRUE]
                /\ \E searched \in
                      {handleSearch(searchInput.value, mode, csChordData, midiIndex,
                                    [query |-> query, result |-> result])} :
                      /\ query' = searched.query
                      /\ result' = searched.result
        /\ UNCHANGED <<PROGRESSIONS, selectedProgression, selectedKey, alterations>>
        /\ UNCHANGED <<db, csChordData, rlChordData, midiIndex>>
        /\ UNCHANGED <<resolveVars, degVars, modal, app, timers>>

\* a progression button click that leaves the alteration map as it is
SelectProgressionKeepingAlterations ==
    \E id \in {"ii-V-I", "I-V-vi-IV", "rhythm-changes", "12-bar-blues", "bird-blues"} :
        /\ searchMode = "progressions"
        /\ selectedProgression' = [id |-> id]
        /\ display' = displayProgression(PROGRESSIONS[id], selectedKey, alterations)
        /\ popup' = Null
        /\ lastEvent' = "none"
        /\ UNCHANGED <<PROGRESSIONS, searchMode, selectedKey, alterations>>
        /\ UNCHANGED <<searchVars, resolveVars, degVars, uiVars>>

\* a progression button click, then the document click listener
SelectProgression ==
    \E id \in {"ii-V-I", "I-V-vi-IV", "rhythm-changes", "12-bar-blues", "bird-blues"} :
        /\ searchMode = "progressions"
        /\ selectedProgression' = [id |-> id]
        /\ alterations' = EmptyMap
        /\ display' = displayProgression(PROGRESSIONS[id], selectedKey, EmptyMap)
        /\ popup' = Null
        /\ lastEvent' = IF alterations = EmptyMap THEN "none" ELSE "clearedBySelection"
        /\ UNCHANGED <<PROGRESSIONS, searchMode, selectedKey>>
        /\ UNCHANGED <<searchVars, resolveVars, degVars, uiVars>>

KeyChangeKeepingAlterations ==
    \E key \in ViewKeys, byMouse \in BOOLEAN :
        /\ searchMode = "progressions"
        /\ key # selectedKey
        /\ selectedKey' = key
        /\ display' = IF IsNull(selectedProgression) THEN display
                      ELSE displayProgression(selectedTemplate, key, alterations)
        /\ popup' = IF byMouse THEN Null ELSE popup
        /\ lastEvent' = "none"
        /\ UNCHANGED <<PROGRESSIONS, searchMode, selectedProgression, alterations>>
        /\ UNCHANGED <<searchVars, resolveVars, degVars, uiVars>>

\* the key selector's change event, in the panel that only the progressions
\* mode shows; made with the mouse it follows a click that closed the popup,
\* made with the keyboard it leaves the popup open
KeyChange ==
    \E key \in ViewKeys, byMouse \in BOOLEAN :
        /\ searchMode = "progressions"
        /\ key # selectedKey
        /\ selectedKey' = key
        /\ alterations' = EmptyMap
        /\ display' = IF IsNull(selectedProgression) THEN display
                      ELSE displayProgression(selectedTemplate, key, EmptyMap)
        /\ popup' = IF byMouse THEN Null ELSE popup
        /\ lastEvent' = IF alterations = EmptyMap THEN "none" ELSE "clearedByKeyChange"
        /\ UNCHANGED <<PROGRESSIONS, searchMode, selectedProgression>>
        /\ UNCHANGED <<searchVars, resolveVars, degVars, uiVars>>

\* the popup showAlterationPopup leaves, as its option handlers see it (slot
\* key, original quality, the qualities offered); none when the quality has no
\* alternative
showAlterationPopup(span) ==
    IF Len(getAlterations(span.originalQuality)) <= 1 THEN Null
    ELSE [slotKey |-> span.slotKey,
          originalQuality |-> span.originalQuality,
          options |-> getAlterations(span.originalQuality)]

\* a click on a chord name of the display (the event does not propagate)
ClickChordName ==
    /\ ~IsNull(display)
    /\ \E i \in 1..Len(display.spans) :
          popup' = showAlterationPopup(display.spans[i])
    /\ lastEvent' = "none"
    /\ UNCHANGED <<PROGRESSIONS, searchMode, selectedProgression, selectedKey,
                   alterations, display>>
    /\ UNCHANGED <<searchVars, resolveVars, degVars, uiVars>>

storeOriginalToo(alts, slotKey, quality, originalQuality) ==
    [k \in DOMAIN alts \cup {slotKey} |-> IF k = slotKey THEN quality ELSE alts[k]]

\* the alteration map after a click on the option quality
chooseQuality(alts, slotKey, quality, originalQuality) ==
    IF quality = originalQuality
    THEN [k \in DOMAIN alts \ {slotKey} |-> alts[k]]
    ELSE [k \in DOMAIN alts \cup {slotKey} |-> IF k = slotKey THEN quality ELSE alts[k]]

ClickOptionWritingTemplate ==
    /\ ~IsNull(popup)
    /\ \E o \in 1..Len(popup.options) :
          LET alts == chooseQuality(alterations, popup.slotKey, popup.options[o],
                                    popup.originalQuality)
          IN /\ Cardinality(DOMAIN alts) <= MaxAlterations
             /\ alterations' = alts
             /\ PROGRESSIONS' = [PROGRESSIONS EXCEPT
                                   ![selectedProgression.id].category = "altered"]
             /\ display' = displayProgression(selectedTemplate, selectedKey, alts)
    /\ popup' = Null
    /\ lastEvent' = "none"
    /\ UNCHANGED <<searchMode, selectedProgression, selectedKey>>
    /\ UNCHANGED <<searchVars, resolveVars, degVars, uiVars>>

\* a click on an option of the popup (the event does not propagate)
ClickOption ==
    /\ ~IsNull(popup)
    /\ \E o \in 1..Len(popup.options) :
          LET alts == chooseQuality(alterations, popup.slotKey, popup.options[o],
                                    popup.originalQuality)
          IN /\ Cardinality(DOMAIN alts) <= MaxAlterations
             /\ alterations' = alts
             /\ display' = displayProgression(selectedTemplate, selectedKey, alts)
             /\ lastEvent' = IF /\ popup.slotKey \in DOMAIN alterations
                                /\ popup.options[o] = popup.originalQuality
                             THEN "removed" ELSE "none"
    /\ popup' = Null
    /\ UNCHANGED <<PROGRESSIONS, searchMode, selectedProgression, selectedKey>>
    /\ UNCHANGED <<searchVars, resolveVars, degVars, uiVars>>

\* a click anywhere else: the document click listener
OutsideClick ==
    /\ popup' = Null
    /\ lastEvent' = "none"
    /\ UNCHANGED <<PROGRESSIONS, searchMode, selectedProgression, selectedKey,
                   alterations, display>>
    /\ UNCHANGED <<searchVars, resolveVars, degVars, uiVars>>

NextView ==
    \/ SetSearchMode
    \/ SelectProgression
    \/ KeyChange
    \/ ClickChordName
    \/ ClickOption
    \/ OutsideClick

SpecView == InitView /\ [][NextView]_vars

\* the chord names of the selected progression as resolved, without overrides
OriginalSpans == displayProgression(selectedTemplate, selectedKey, EmptyMap).spans

\* C7: choosing a slot's original quality in the popup when the slot has an
\* override removes that slot's entry and leaves the other entries, so the map
\* is empty if the slot's was the only entry; the display then shows the slot's
\* chord as resolved; and no entry of the map is the slot's original quality.
C7_RevertRemovesOverride ==
    /\ [](~IsNull(selectedProgression) =>
            LET original == OriginalSpans
            IN \A i \in 1..Len(original) :
                  original[i].slotKey \in DOMAIN alterations
                     => alterations[original[i].slotKey] # original[i].originalQuality)
    /\ [][lastEvent' = "removed" =>
            LET original == OriginalSpans
                shown == display'.spans
            IN /\ popup.slotKey \notin DOMAIN alterations'
               /\ alterations'
                    = [k \in DOMAIN alterations \ {popup.slotKey} |-> alterations[k]]
               /\ DOMAIN alterations = {popup.slotKey} => alterations' = EmptyMap
               /\ \A i \in 1..Len(shown) :
                     shown[i].slotKey = popup.slotKey
                        => shown[i].displayName
                             = original[i].root \o original[i].originalQuality]_vars

\* C7 witness: an override was just removed by choosing the original quality,
\* the map is empty and the display shows every chord as resolved.
C7_Witness ==
    /\ lastEvent = "removed"
    /\ alterations = EmptyMap
    /\ ~IsNull(display)
    /\ display.spans = OriginalSpans

\* C29: in every state of the progression view, each key of the alteration
\* map is the slot key of a chord of the selected progression, and its value
\* is one of the alternatives ALTERATIONS lists for that slot's default
\* quality, other than the default quality itself.
C29_OverridesNameSlotsAndAlternatives ==
    \A k \in DOMAIN alterations :
        /\ ~IsNull(selectedProgression)
        /\ \E i \in 1..Len(OriginalSpans) :
              LET slot == OriginalSpans[i]
              IN /\ slot.slotKey = k
                 /\ alterations[k] \in Range(getAlterations(slot.originalQuality))
                 /\ alterations[k] # slot.originalQuality

\* C29 witness: an override is recorded for a slot of a section of a
\* progression shown in sections.
C29_Witness ==
    /\ ~IsNull(selectedProgression)
    /\ selectedTemplate.displayMode = "sections"
    /\ \E k \in DOMAIN alterations : includes(k, "-")

\* C8: a key change and a progression selection leave the alteration map empty
\* and the display they build shows every chord as resolved, without override.
C8_ClearedOnKeyOrProgression ==
    [][(\/ KeyChange
        \/ SelectProgression
        \/ selectedKey' # selectedKey
        \/ selectedProgression' # selectedProgression) =>
          /\ alterations' = EmptyMap
          /\ ~IsNull(selectedProgression') =>
                display' = displayProgression(PROGRESSIONS'[selectedProgression'.id],
                                              selectedKey', EmptyMap)]_vars

\* C8 witness: a key change has just cleared a map that held an override.
C8_Witness ==
    /\ lastEvent = "clearedByKeyChange"
    /\ alterations = EmptyMap
    /\ ~IsNull(display)

\* C9: a step that changes the alteration map by recording, changing or
\* removing an override changes neither the templates, the selected key nor
\* the selected progression; and no step at all changes the templates.
C9_OnlyTheAlterationMap ==
    [][/\ PROGRESSIONS' = PROGRESSIONS
       /\ (alterations' # alterations /\ lastEvent' \in {"none", "removed"}) =>
             /\ selectedKey' = selectedKey
             /\ selectedProgression' = selectedProgression]_vars

\* C9 witness: an override is recorded and the templates are those of the source.
C9_Witness ==
    /\ alterations # EmptyMap
    /\ PROGRESSIONS = TEMPLATES
    /\ ~IsNull(display)

-----------------------------------------------------------------------------
(* degrees.js: ChordDegrees *)

\* chord quality -> formula, an ordered list of degree tokens
CHORD_FORMULAS ==
    (<<"m","a","j","o","r">> :> <<"R", "3", "5">>) @@
    (<<>> :> <<"R", "3", "5">>) @@
    (<<"m","i","n","o","r">> :> <<"R", "b3", "5">>) @@
    (<<"m">> :> <<"R", "b3", "5">>) @@
    (<<"d","i","m">> :> <<"R", "b3", "b5">>) @@
    (<<"a","u","g">> :> <<"R", "3", "#5">>) @@
    (<<"m","a","j","7">> :> <<"R", "3", "5", "7">>) @@
    (<<"7">> :> <<"R", "3", "5", "b7">>) @@
    (<<"m","7">> :> <<"R", "b3", "5", "b7">>) @@
    (<<"m","7","b","5">> :> <<"R", "b3", "b5", "b7">>) @@
    (<<"d","i","m","7">> :> <<"R", "b3", "b5", "bb7">>) @@
    (<<"m","m","a","j","7">> :> <<"R", "b3", "5", "7">>) @@
    (<<"m","M","a","j","7">> :> <<"R", "b3", "5", "7">>) @@
    (<<"9">> :> <<"R", "3", "5", "b7", "9">>) @@
    (<<"m","a","j","9">> :> <<"R", "3", "5", "7", "9">>) @@
    (<<"m","9">> :> <<"R", "b3", "5", "b7", "9">>) @@
    (<<"1","1">> :> <<"R", "3", "5", "b7", "9", "11">>) @@
    (<<"m","a","j","1","1">> :> <<"R", "3", "5", "7", "9", "11">>) @@
    (<<"m","1","1">> :> <<"R", "b3", "5", "b7", "9", "11">>) @@
    (<<"1","3">> :> <<"R", "3", "5", "b7", "9", "13">>) @@
    (<<"m","a","j","1","3">> :> <<"R", "3", "5", "7", "9", "13">>) @@
    (<<"6">> :> <<"R", "3", "5", "6">>) @@
    (<<"m","6">> :> <<"R", "b3", "5", "6">>) @@
    (<<"6","9">> :> <<"R", "3", "5", "6", "9">>) @@
    (<<"m","6","9">> :> <<"R", "b3", "5", "6", "9">>) @@
    (<<"s","u","s","2">> :> <<"R", "2", "5">>) @@
    (<<"s","u","s","4">> :> <<"R", "4", "5">>) @@
    (<<"s","u","s">> :> <<"R", "4", "5">>) @@
    (<<"7","s","u","s","4">> :> <<"R", "4", "5", "b7">>) @@
    (<<"7","s","u","s","2">> :> <<"R", "2", "5", "b7">>) @@
    (<<"a","d","d","9">> :> <<"R", "3", "5", "9">>) @@
    (<<"m","a","d","d","9">> :> <<"R", "b3", "5", "9">>) @@
    (<<"a","d","d","1","1">> :> <<"R", "3", "5", "11">>) @@
    (<<"a","l","t">> :> <<"R", "3", "b5", "b7", "b9", "#9">>) @@
    (<<"7","b","5">> :> <<"R", "3", "b5", "b7">>) @@
    (<<"7","#","5">> :> <<"R", "3", "#5", "b7">>) @@
    (<<"a","u","g","7">> :> <<"R", "3", "#5", "b7">>) @@
    (<<"7","b","9">> :> <<"R", "3", "5", "b7", "b9">>) @@
    (<<"7","#","9">> :> <<"R", "3", "5", "b7", "#9">>) @@
    (<<"9","b","5">> :> <<"R", "3", "b5", "b7", "9">>) @@
    (<<"a","u","g","9">> :> <<"R", "3", "#5", "b7", "9">>) @@
    (<<"9","#","1","1">> :> <<"R", "3", "5", "b7", "9", "#11">>) @@
    (<<"m","a","j","7","b","5">> :> <<"R", "3", "b5", "7">>) @@
    (<<"m","a","j","7","#","5">> :> <<"R", "3", "#5", "7">>) @@
    (<<"m","a","j","7","s","u","s","2">> :> <<"R", "2", "5", "7">>) @@
    (<<"m","m","a","j","7","b","5">> :> <<"R", "b3", "b5", "7">>) @@
    (<<"m","m","a","j","9">> :> <<"R", "b3", "5", "7", "9">>) @@
    (<<"m","m","a","j","1","1">> :> <<"R", "b3", "5", "7", "9", "11">>) @@
    (<<"5">> :> <<"R", "5">>) @@
    (<<"s","u","s","2","s","u","s","4">> :> <<"R", "2", "4", "5">>)

INTERVAL_SEMITONES ==
    ("R" :> 0) @@ ("b2" :> 1) @@ ("2" :> 2) @@ ("#2" :> 3) @@ ("b3" :> 3) @@
    ("3" :> 4) @@ ("4" :> 5) @@ ("#4" :> 6) @@ ("b5" :> 6) @@ ("5" :> 7) @@
    ("#5" :> 8) @@ ("6" :> 9) @@ ("bb7" :> 9) @@ ("b7" :> 10) @@ ("7" :> 11) @@
    ("b9" :> 13) @@ ("9" :> 14) @@ ("#9" :> 15) @@ ("11" :> 17) @@ ("#11" :> 18) @@
    ("b13" :> 20) @@ ("13" :> 21)

\* Object.entries(INTERVAL_SEMITONES): integer-like keys first, ascending, then
\* the other keys in insertion order
intervalEntries ==
    << [interval |-> "2", semitones |-> 2], [interval |-> "3", semitones |-> 4],
       [interval |-> "4", semitones |-> 5], [interval |-> "5", semitones |-> 7],
       [interval |-> "6", semitones |-> 9], [interval |-> "7", semitones |-> 11],
       [interval |-> "9", semitones |-> 14], [interval |-> "11", semitones |-> 17],
       [interval |-> "13", semitones |-> 21], [interval |-> "R", semitones |-> 0],
       [interval |-> "b2", semitones |-> 1], [interval |-> "#2", semitones |-> 3],
       [interval |-> "b3", semitones |-> 3], [interval |-> "#4", semitones |-> 6],
       [interval |-> "b5", semitones |-> 6], [interval |-> "#5", semitones |-> 8],
       [interval |-> "bb7", semitones |-> 9], [interval |-> "b7", semitones |-> 10],
       [interval |-> "b9", semitones |-> 13], [interval |-> "#9", semitones |-> 15],
       [interval |-> "#11", semitones |-> 18], [interval |-> "b13", semitones |-> 20] >>

\* SEMITONES_TO_INTERVALS after init(): for each pitch class 0..11 the entries
\* of INTERVAL_SEMITONES that fall on it, in enumeration order
buildSemitonesMap ==
    [pitchClass \in 0..11 |->
        SelectSeq(intervalEntries, LAMBDA e : e.semitones % 12 = pitchClass)]

SEMITONES_TO_INTERVALS == buildSemitonesMap

\* the result of arithmetic on a value that is not a number
NaN == [nan |-> TRUE]

\* getRootPitchClass(rootKey), mapping[rootKey] ?? 0: an unknown root counts as
\* C; an inherited property is found, is not nullish and is returned as it is
getRootPitchClass(rootKey) ==
    LET mapping ==
        (<<"C">> :> 0) @@ (<<"C","s","h","a","r","p">> :> 1) @@ (<<"C","#">> :> 1) @@
        (<<"D","b">> :> 1) @@ (<<"D">> :> 2) @@ (<<"E","b">> :> 3) @@
        (<<"D","#">> :> 3) @@ (<<"E">> :> 4) @@ (<<"F">> :> 5) @@
        (<<"F","s","h","a","r","p">> :> 6) @@ (<<"F","#">> :> 6) @@ (<<"G","b">> :> 6) @@
        (<<"G">> :> 7) @@ (<<"A","b">> :> 8) @@ (<<"G","#">> :> 8) @@
        (<<"A">> :> 9) @@ (<<"B","b">> :> 10) @@ (<<"A","#">> :> 10) @@
        (<<"B">> :> 11)
    IN IF rootKey \in DOMAIN mapping THEN Some(mapping[rootKey])
       ELSE IF rootKey \in ObjectPrototypeKeys THEN NaN
       ELSE Some(0)

\* the first token of a list that satisfies Test, Null when there is none
firstToken(tokens, Test(_)) ==
    LET hits == SelectSeq(tokens, Test)
    IN IF hits = <<>> THEN Null ELSE Some(hits[1])

\* findIntervalFromFormula trying the priority list before the formula
findIntervalPriorityFirst(semitones, formula) ==
    LET d == semitones.value
        priority == <<"R", "5", "3", "b3", "7", "b7", "4", "2", "6", "9", "11", "13">>
        preferred == firstToken(priority, LAMBDA p : INTERVAL_SEMITONES[p] % 12 = d)
        inFormula == firstToken(formula, LAMBDA t : INTERVAL_SEMITONES[t] % 12 = d)
    IN IF semitones = NaN THEN Null
       ELSE IF ~IsNull(preferred) THEN preferred
       ELSE IF ~IsNull(inFormula) THEN inFormula
       ELSE Some(SEMITONES_TO_INTERVALS[d][1].interval)

\* findIntervalFromFormula(semitones, formula) for an iterable formula:
\* semitones is Some(0..11), or NaN, which equals no offset and indexes no list
findIntervalFromFormula(semitones, formula) ==
    IF semitones = NaN THEN Null
    ELSE
      LET d == semitones.value
          priority == <<"R", "5", "3", "b3", "7", "b7", "4", "2", "6", "9", "11", "13">>
          inFormula == firstToken(formula,
                          LAMBDA interval : /\ interval \in DOMAIN INTERVAL_SEMITONES
                                            /\ INTERVAL_SEMITONES[interval] % 12 = d)
          possibleIntervals == SEMITONES_TO_INTERVALS[d]
          preferred == firstToken(priority,
                          LAMBDA p : \E i \in 1..Len(possibleIntervals) :
                                        possibleIntervals[i].interval = p)
      IN IF ~IsNull(inFormula) THEN inFormula
         ELSE IF Len(possibleIntervals) > 0
              THEN IF ~IsNull(preferred) THEN preferred
                   ELSE Some(possibleIntervals[1].interval)
              ELSE Null

\* (midiNote % 12 - rootPitchClass + 12) % 12
semitonesFromRoot(midiNote, rootPitchClass) ==
    IF rootPitchClass = NaN THEN NaN
    ELSE Some(((midiNote % 12) - rootPitchClass.value + 12) % 12)

\* CHORD_FORMULAS[suffix] || CHORD_FORMULAS["major"], for a suffix that names no
\* inherited property
formulaOf(suffix) ==
    IF suffix \in DOMAIN CHORD_FORMULAS THEN CHORD_FORMULAS[suffix]
    ELSE CHORD_FORMULAS[major]

\* the loop of calculateIntervals from string (1-based) on; midiUsed is the
\* loop's midiIndex, the number of MIDI notes already consumed
RECURSIVE labelStrings(_, _, _, _, _)
labelStrings(position, rootPitchClass, formula, string, midiUsed) ==
    IF string > 6 THEN <<>>
    ELSE IF position.frets[string] = -1
         THEN <<Null>> \o labelStrings(position, rootPitchClass, formula,
                                       string + 1, midiUsed)
         ELSE LET interval ==
                    IF midiUsed + 1 > Len(position.midi) THEN Null
                    ELSE findIntervalFromFormula(
                           semitonesFromRoot(position.midi[midiUsed + 1],
                                             rootPitchClass),
                           formula)
              IN <<interval>> \o labelStrings(position, rootPitchClass, formula,
                                              string + 1, midiUsed + 1)

\* ChordDegrees.calculateIntervals(position, rootKey, suffix). For a suffix
\* that names an inherited property the formula is a function, and the first
\* sounded string (it reads midi[0], which exists) iterates it: a TypeError
calculateIntervals(position, rootKey, suffix) ==
    LET noMidi == "midi" \notin DOMAIN position \/ Len(position.midi) = 0
        formulaIsIterable ==
            suffix \in DOMAIN CHORD_FORMULAS \/ suffix \notin ObjectPrototypeKeys
        iteratesFormula == \E string \in 1..6 : position.frets[string] # -1
    IN IF noMidi
       THEN returned("calculateIntervals", [string \in 1..6 |-> Null])
       ELSE IF ~formulaIsIterable /\ iteratesFormula
            THEN threw("calculateIntervals")
            ELSE returned("calculateIntervals",
                          labelStrings(position, getRootPitchClass(rootKey),
                                       formulaOf(suffix), 1, 0))

-----------------------------------------------------------------------------
(* Degree labelling of voicings: calculateIntervals applied to drawn inputs *)

MaxFret == 1

\* calculateIntervals inputs: six fret entries each; the midi array holds the
\* notes of the sounded strings (open strings E2 A2 D3 G3 B3 E4 plus the fret),
\* lowest first: complete, one note short, empty or missing; roots: two the
\* table knows, one it does not, one inherited property name; qualities: two
\* of the formula table, one unknown, one inherited property name.
\* findIntervalFromFormula inputs: every distance and every formula of the table
InitDeg ==
    /\ db = ParseDatabase
    /\ SearchIdle
    /\ ViewIdle
    /\ UiIdle
    /\ ResolveIdle
    /\ LET Tuning == <<40, 45, 50, 55, 59, 64>>
           soundedMidi(frets) ==
               SelectSeq([string \in 1..6 |->
                             IF frets[string] = -1 THEN -1
                             ELSE Tuning[string] + frets[string]],
                         LAMBDA note : note # -1)
           DegPositions ==
               UNION { { [frets |-> frets, midi |-> soundedMidi(frets)],
                         [frets |-> frets,
                          midi |-> SubSeq(soundedMidi(frets), 1,
                                          Len(soundedMidi(frets)) - 1)],
                         [frets |-> frets, midi |-> <<>>],
                         [frets |-> frets] }
                       : frets \in [1..6 -> {-1} \cup 0..MaxFret] }
           DegRoots == {<<"C">>, <<"C","#">>, <<"H">>, <<"v","a","l","u","e","O","f">>}
           DegSuffixes ==
               {major, <<"m","7">>, <<"b","l","u","e","s">>,
                <<"c","o","n","s","t","r","u","c","t","o","r">>}
       IN \/ degInput \in [position : DegPositions, rootKey : DegRoots,
                            suffix : DegSuffixes]
          \/ degInput \in [semitones : 0..11,
                            formula : {CHORD_FORMULAS[q] : q \in DOMAIN CHORD_FORMULAS}]
    /\ degOutput = Null

\* ChordDegrees.calculateIntervals(position, rootKey, suffix)
CalculateIntervals ==
    /\ "position" \in DOMAIN degInput
    /\ degOutput' = calculateIntervals(degInput.position, degInput.rootKey,
                                       degInput.suffix)
    /\ UNCHANGED <<searchVars, viewVars, resolveVars, degInput, uiVars>>

\* ChordDegrees.findIntervalFromFormula(semitones, formula)
FindIntervalFromFormula ==
    /\ "formula" \in DOMAIN degInput
    /\ degOutput' = returned("findIntervalFromFormula",
                             findIntervalFromFormula(Some(degInput.semitones),
                                                     degInput.formula))
    /\ UNCHANGED <<searchVars, viewVars, resolveVars, degInput, uiVars>>

NextDeg ==
    \/ CalculateIntervals
    \/ FindIntervalFromFormula

SpecDeg == InitDeg /\ [][NextDeg]_vars

\* the number of sounded strings among the strings 1..string
soundedUpTo(frets, string) == Cardinality({t \in 1..string : frets[t] # -1})

\* the label the k-th MIDI note gets under the formula of the quality
labelOfNote(position, k, rootKey, suffix) ==
    IF "midi" \notin DOMAIN position \/ k > Len(position.midi) THEN Null
    ELSE findIntervalFromFormula(
           semitonesFromRoot(position.midi[k], getRootPitchClass(rootKey)),
           formulaOf(suffix))

\* C10: for a voicing with six fret entries calculateIntervals raises no error
\* and returns six entries in string order, each null or one degree label;
\* a muted string gets null, the k-th sounded string is labelled from the k-th
\* MIDI note, and a repeated call on the same arguments returns the same array.
C10_SixLabelsNeverRaises ==
    /\ []((~IsNull(degOutput) /\ "position" \in DOMAIN degInput) =>
           LET position == degInput.position
               out == degOutput
           IN /\ ~out.threw
              /\ Len(out.value.value) = 6
              /\ \A string \in 1..6 :
                    LET label == out.value.value[string]
                    IN /\ \/ IsNull(label)
                          \/ label \in {Some(l) : l \in DOMAIN INTERVAL_SEMITONES}
                       /\ position.frets[string] = -1 => IsNull(label)
                       /\ position.frets[string] # -1 =>
                            label = labelOfNote(position,
                                                soundedUpTo(position.frets, string),
                                                degInput.rootKey, degInput.suffix))
    /\ [][(~IsNull(degOutput) /\ degInput' = degInput) => degOutput' = degOutput]_vars

\* C23: for a quality that the formula table has no entry for,
\* calculateIntervals returns the labels it returns for quality "major" on the
\* same position and root.
C23_UnknownQualityLabelsAsMajor ==
    ( /\ ~IsNull(degOutput)
      /\ "position" \in DOMAIN degInput
      /\ degInput.suffix \notin DOMAIN CHORD_FORMULAS )
    => degOutput = calculateIntervals(degInput.position, degInput.rootKey, major)

\* the tokens of a list whose semitone offset mod 12 is d, in list order
tokensAt(tokens, d) == SelectSeq(tokens, LAMBDA t : INTERVAL_SEMITONES[t] % 12 = d)

PriorityList == <<"R", "5", "3", "b3", "7", "b7", "4", "2", "6", "9", "11", "13">>

\* C11 as stated: the label of a note d semitones above the root is the first
\* formula token at d; failing that the first priority entry at d; failing
\* that the string gets no label (null).
C11_FormulaThenPriorityElseNull ==
    (~IsNull(degOutput) /\ "formula" \in DOMAIN degInput) =>
        LET d == degInput.semitones
            label == degOutput.value.value
        IN IF tokensAt(degInput.formula, d) # <<>>
           THEN label = Some(tokensAt(degInput.formula, d)[1])
           ELSE IF tokensAt(PriorityList, d) # <<>>
                THEN label = Some(tokensAt(PriorityList, d)[1])
                ELSE IsNull(label)

\* C11 amended: as above, but when neither the formula nor the priority list
\* has a token at d (d = 1, 6 or 8) the label is the first interval the table
\* INTERVAL_SEMITONES lists at d (b2, #4, #5); the label is never null.
C11_FormulaThenPriorityThenFirstListed ==
    (~IsNull(degOutput) /\ "formula" \in DOMAIN degInput) =>
        LET d == degInput.semitones
            label == degOutput.value.value
            listed == IF d = 1 THEN "b2" ELSE IF d = 6 THEN "#4" ELSE "#5"
        IN /\ ~degOutput.threw
           /\ ~IsNull(label)
           /\ IF tokensAt(degInput.formula, d) # <<>>
              THEN label = Some(tokensAt(degInput.formula, d)[1])
              ELSE IF tokensAt(PriorityList, d) # <<>>
                   THEN label = Some(tokensAt(PriorityList, d)[1])
                   ELSE d \in {1, 6, 8} /\ label = Some(listed)

\* a tritone above the root of a major triad is labelled #4
C11_Witness ==
    /\ "formula" \in DOMAIN degInput
    /\ degInput.formula = <<"R", "3", "5">>
    /\ degInput.semitones = 6
    /\ degOutput = returned("findIntervalFromFormula", Some("#4"))

-----------------------------------------------------------------------------
(* Suggestions: getSuggestions applied to partial chord names *)

MaxKeyChords == 12

\* the databases list, under the keys D and Csharp, count qualities of a pool
\* (twelve of the minor family first) from the start-th on, cyclically, in
\* that order; the inputs are partial chord names as typed
InitSuggest ==
    /\ LET SuggestPool ==
             << minor, <<"m","6">>, <<"m","7">>, <<"m","9">>, <<"m","1","1">>,
                <<"m","6","9">>, <<"m","7","b","5">>, mmaj7, <<"m","m","a","j","9">>,
                <<"m","a","d","d","9">>, <<"m","/","B">>, <<"m","m","a","j","1","1">>,
                major, maj7, <<"m","a","j","9">>, <<"7">> >>
           entries(dbKey, start, count) ==
             [i \in 1..count |->
                 [key |-> keyProperty(dbKey),
                  suffix |-> SuggestPool[((start + i - 2) % Len(SuggestPool)) + 1],
                  positions |-> <<>>]]
           SuggestDatabase(start, count) ==
             [suffixes |-> SuggestPool,
              chords |-> (<<"D">> :> entries(<<"D">>, start, count)) @@
                         (Csharp :> entries(Csharp, start, count))]
       IN db \in {SuggestDatabase(start, count) :
                    start \in 1..Len(SuggestPool), count \in {0, 3, MaxKeyChords}}
    /\ query \in
         { <<>>, <<"D">>, <<"d">>, <<"D","m">>, <<"D","M">>, <<"D","m","a">>,
           <<"D","m","a","j">>, <<"D","m","7">>, <<"D","m","i">>, <<"D","m","m">>,
           <<"D"," ","m">>, <<" ","D","m"," ">>, <<"D","7">>, <<"D","x">>,
           <<"D","b">>, <<"D","b","m">>, <<"C","#","m">>, <<"C",SharpSign,"M","7">>,
           <<"E","m">>, <<"H","m">> }
    /\ csChordData = Null
    /\ rlChordData = Null
    /\ midiIndex = Null
    /\ result = Null
    /\ ViewIdle
    /\ UiIdle
    /\ ResolveIdle
    /\ DegreesIdle

\* a call of ChordSearch.getSuggestions(partial) on the text typed
GetSuggestions ==
    /\ result' = [kind |-> "suggestions", value |-> getSuggestions(query, csChordData)]
    /\ UNCHANGED <<db, csChordData, rlChordData, midiIndex, query>>
    /\ UNCHANGED <<viewVars, resolveVars, degVars, uiVars>>

NextSuggest ==
    \/ ChordSearch_init
    \/ GetSuggestions

SpecSuggest == InitSuggest /\ [][NextSuggest]_vars

\* the chord entries the database lists for the root parsed from the query
SuggestKeyChords ==
    LET parsed == parseChordName(query, db)
    IN IF IsNull(parsed) \/ getDatabaseKey(parsed.root) \notin DOMAIN db.chords
       THEN <<>>
       ELSE db.chords[getDatabaseKey(parsed.root)]

\* the name under which a chord entry is suggested for the parsed root
SuggestedName(chord) ==
    parseChordName(query, db).root \o (IF chord.suffix = major THEN <<>> ELSE chord.suffix)

\* the typed quality starts with "m" but not with "ma", whatever the case
TypedMinorPrefix ==
    LET raw == toLowerCase(rawSuffixOf(query))
    IN isPrefix(<<"m">>, raw) /\ ~isPrefix(<<"m","a">>, raw)

MajorFamily(suffix) ==
    \/ suffix = major
    \/ isPrefix(<<"m","a","j">>, toLowerCase(suffix))

\* C12: when the typed quality starts with "m" but not "ma", every suggestion
\* names the parsed root with a database quality that is "minor" or starts with
\* "m" but not "maj"; "major" and qualities starting with "maj" are never
\* suggested.
C12_MinorPrefixExcludesMajor ==
    (~IsNull(result) /\ TypedMinorPrefix) =>
        \A i \in 1..Len(result.value) :
            \E k \in 1..Len(SuggestKeyChords) :
                LET chord == SuggestKeyChords[k]
                IN /\ result.value[i] = SuggestedName(chord)
                   /\ \/ toLowerCase(chord.suffix) = minor
                      \/ /\ isPrefix(<<"m">>, toLowerCase(chord.suffix))
                         /\ ~isPrefix(<<"m","a","j">>, toLowerCase(chord.suffix))
                   /\ ~MajorFamily(chord.suffix)

\* "Dm" typed against a key that lists maj7 and m7: Dm7 is suggested
C12_Witness ==
    /\ ~IsNull(result)
    /\ query = <<"D","m">>
    /\ \E k \in 1..Len(SuggestKeyChords) : SuggestKeyChords[k].suffix = maj7
    /\ \E i \in 1..Len(result.value) : result.value[i] = <<"D","m","7">>

\* C13: getSuggestions returns at most 10 names; each names the parsed root
\* with a database quality of which the typed quality is a case-insensitive
\* prefix; and they are the first 10 matches in the order of the database list
\* of that root, not sorted.
C13_FirstTenInDatabaseOrder ==
    [][(GetSuggestions /\ ~IsNull(csChordData)) =>
        LET raw == toLowerCase(rawSuffixOf(query))
            matching == SelectSeq(SuggestKeyChords,
                           LAMBDA chord :
                              /\ isPrefix(raw, toLowerCase(chord.suffix))
                              /\ TypedMinorPrefix => ~MajorFamily(chord.suffix))
            n == Len(result'.value)
        IN /\ n <= 10
           /\ n <= Len(matching)
           /\ n < 10 => n = Len(matching)
           /\ \A i \in 1..n : result'.value[i] = SuggestedName(matching[i])]_vars

\* more than ten chords match, ten are suggested, and not in sorted order
C13_Witness ==
    /\ ~IsNull(result)
    /\ query = <<"D">>
    /\ Len(SuggestKeyChords) > 10
    /\ Len(result.value) = 10
    /\ \E i \in 1..9 : textLess(result.value[i + 1], result.value[i])

-----------------------------------------------------------------------------
(* modal.js: Modal, the enlarged chord view *)

MaxPositions == 2

\* Modal.open(chord, chordName, initialPosition), activeElement being
\* document.activeElement; renderCurrentPosition and updateNavigationState
\* write the indicator and the buttons
Modal_open(m, chord, initialPosition, activeElement) ==
    IF IsNull(chord) THEN m
    ELSE IF "positions" \notin DOMAIN chord THEN m
    ELSE IF Len(chord.positions) = 0 THEN m
    ELSE LET last == Len(chord.positions) - 1
             index == IF initialPosition < last THEN initialPosition ELSE last
         IN [isOpen |-> TRUE, chord |-> chord, positions |-> chord.positions,
             currentPositionIndex |-> index,
             previouslyFocused |-> activeElement,
             positionIndicator |-> <<index + 1, Len(chord.positions)>>,
             prevDisabled |-> (index = 0),
             nextDisabled |-> (index = last)]

\* Modal.close()
Modal_close(m) ==
    IF ~m.isOpen THEN m
    ELSE [m EXCEPT !.isOpen = FALSE, !.chord = Null, !.positions = <<>>,
                   !.currentPositionIndex = 0]

\* Modal.prevPosition()
prevPosition(m) ==
    IF m.currentPositionIndex > 0
    THEN [m EXCEPT !.currentPositionIndex = @ - 1,
                   !.positionIndicator = <<m.currentPositionIndex, Len(m.positions)>>,
                   !.prevDisabled = (m.currentPositionIndex - 1 = 0),
                   !.nextDisabled = (m.currentPositionIndex - 1 = Len(m.positions) - 1)]
    ELSE m

\* Modal.nextPosition() without its test: the index goes up at every call
nextPositionPastEnd(m) ==
    [m EXCEPT !.currentPositionIndex = @ + 1,
              !.positionIndicator = <<m.currentPositionIndex + 2, Len(m.positions)>>,
              !.prevDisabled = (m.currentPositionIndex + 1 = 0),
              !.nextDisabled = (m.currentPositionIndex + 1 = Len(m.positions) - 1)]

\* Modal.nextPosition()
nextPosition(m) ==
    IF m.currentPositionIndex < Len(m.positions) - 1
    THEN [m EXCEPT !.currentPositionIndex = @ + 1,
                   !.positionIndicator = <<m.currentPositionIndex + 2, Len(m.positions)>>,
                   !.prevDisabled = (m.currentPositionIndex + 1 = 0),
                   !.nextDisabled = (m.currentPositionIndex + 1 = Len(m.positions) - 1)]
    ELSE m

\* the modal as Modal.init leaves it, over a loaded database
InitModal ==
    /\ db \in {makeDatabase(<<v>>) : v \in VoicingKinds}
    /\ SearchIdle
    /\ ViewIdle
    /\ ResolveIdle
    /\ DegreesIdle
    /\ modal = [isOpen |-> FALSE, chord |-> Null, positions |-> <<>>,
                currentPositionIndex |-> 0, previouslyFocused |-> Null,
                positionIndicator |-> Null,
                prevDisabled |-> FALSE, nextDisabled |-> FALSE]
    /\ app = [isInitialized |-> TRUE, loading |-> FALSE, listening |-> TRUE,
              error |-> Null]
    /\ autocomplete = [isOpen |-> FALSE, suggestions |-> <<>>, selectedIndex |-> -1]
    /\ searchInput = [value |-> <<>>, focused |-> FALSE]
    /\ timers = {}

\* a call of Modal.open: null, a chord without a positions property, and
\* chords of the database's key and suffix with up to MaxPositions positions
OpenModal ==
    \E initialPosition \in 0..MaxPositions, activeElement \in {"card", "body"},
       chord \in {Null} \cup
                 UNION { {[key |-> db.chords[k][1].key, suffix |-> db.chords[k][1].suffix]} \cup
                         UNION { [key : {db.chords[k][1].key},
                                  suffix : {db.chords[k][1].suffix},
                                  positions : [1..n -> {p \in PositionPool : Len(p.midi) > 0}]] :
                                 n \in 0..MaxPositions } :
                         k \in DOMAIN db.chords } :
        /\ modal' = Modal_open(modal, chord, initialPosition, activeElement)
        /\ UNCHANGED <<searchVars, viewVars, resolveVars, degVars>>
        /\ UNCHANGED <<app, autocomplete, searchInput, timers>>

\* a click on the backdrop, the close button or an enabled navigation button
ModalClick ==
    \E button \in {"backdrop", "close", "prev", "next"} :
        /\ button = "prev" => ~modal.prevDisabled
        /\ button = "next" => ~modal.nextDisabled
        /\ modal' = CASE button = "prev" -> prevPosition(modal)
                      [] button = "next" -> nextPosition(modal)
                      [] OTHER -> Modal_close(modal)
        /\ UNCHANGED <<searchVars, viewVars, resolveVars, degVars>>
        /\ UNCHANGED <<app, autocomplete, searchInput, timers>>

\* the document's keydown listener
ModalKeydown ==
    \E key \in {"Escape", "ArrowLeft", "ArrowRight", "a"} :
        /\ modal' = IF ~modal.isOpen THEN modal
                    ELSE CASE key = "Escape" -> Modal_close(modal)
                           [] key = "ArrowLeft" -> prevPosition(modal)
                           [] key = "ArrowRight" -> nextPosition(modal)
                           [] OTHER -> modal
        /\ UNCHANGED <<searchVars, viewVars, resolveVars, degVars>>
        /\ UNCHANGED <<app, autocomplete, searchInput, timers>>

NextModal ==
    \/ OpenModal
    \/ ModalClick
    \/ ModalKeydown

SpecModal == InitModal /\ [][NextModal]_vars

\* C25: while the modal is open its index is one of its positions and the
\* indicator reads "Position index + 1 of positions.length", between 1 and
\* that length; a previous at the first position and a next at the last leave
\* the index as it is, any other moves it by one; opening with null, with a
\* chord without positions or with an empty list changes nothing; and a key
\* pressed while the modal is closed changes nothing.
C25_IndexWithinPositions ==
    /\ [](modal.isOpen =>
            /\ 0 <= modal.currentPositionIndex
            /\ modal.currentPositionIndex <= Len(modal.positions) - 1
            /\ modal.positionIndicator
                 = <<modal.currentPositionIndex + 1, Len(modal.positions)>>
            /\ \A chord \in {Null, [key |-> <<"C">>, suffix |-> major],
                             [key |-> <<"C">>, suffix |-> major, positions |-> <<>>]} :
                  Modal_open(modal, chord, 0, "card") = modal)
    /\ [][modal.isOpen /\ modal' = prevPosition(modal) =>
            modal'.currentPositionIndex
              = IF modal.currentPositionIndex = 0 THEN 0
                ELSE modal.currentPositionIndex - 1]_vars
    /\ [][modal.isOpen /\ modal' = nextPosition(modal) =>
            modal'.currentPositionIndex
              = IF modal.currentPositionIndex = Len(modal.positions) - 1
                THEN modal.currentPositionIndex
                ELSE modal.currentPositionIndex + 1]_vars
    /\ [][~modal.isOpen /\ ModalKeydown => modal' = modal]_vars

\* C25 witness: the modal, opened on a chord with several positions, shows the
\* last of them with the next button disabled.
C25_Witness ==
    /\ modal.isOpen
    /\ Len(modal.positions) > 1
    /\ modal.currentPositionIndex = Len(modal.positions) - 1
    /\ modal.nextDisabled
    /\ ~modal.prevDisabled

-----------------------------------------------------------------------------
(* The page: App.init, the search box and its autocomplete dropdown *)

\* the page once the DOMContentLoaded handler has called App.init, which
\* awaits the database; the database lists C major and one more quality of C
InitUI ==
    /\ db \in {makeDatabase(<<[dbKey |-> <<"C">>, suffix |-> major,
                               position |-> [frets |-> <<-1, 3, 2, 0, 1, 0>>,
                                             midi |-> <<48, 52, 55, 60, 64>>]],
                              [dbKey |-> <<"C">>, suffix |-> suffix,
                               position |-> [frets |-> <<-1, 3, 2, 0, 0, 0>>,
                                             midi |-> <<48, 52, 55, 59, 64>>]]>>) :
               suffix \in {maj7, sus}}
    /\ SearchIdle
    /\ ViewIdle
    /\ ResolveIdle
    /\ DegreesIdle
    /\ modal = [isOpen |-> FALSE, chord |-> Null, positions |-> <<>>,
                currentPositionIndex |-> 0, previouslyFocused |-> Null,
                positionIndicator |-> Null,
                prevDisabled |-> FALSE, nextDisabled |-> FALSE]
    /\ app = [isInitialized |-> FALSE, loading |-> TRUE, listening |-> FALSE,
              error |-> Null]
    /\ autocomplete = [isOpen |-> FALSE, suggestions |-> <<>>, selectedIndex |-> -1]
    /\ searchInput = [value |-> <<>>, focused |-> FALSE]
    /\ timers = {}

\* App.init that attaches the listeners before it awaits the database
App_initListeningFirst ==
    /\ app.loading
    /\ \E loaded \in BOOLEAN :
          IF loaded
          THEN /\ csChordData' = db
               /\ rlChordData' = db
               /\ midiIndex' = buildIndex(db, midiIndex)
               /\ app' = [isInitialized |-> TRUE, loading |-> FALSE,
                          listening |-> TRUE, error |-> Null]
               /\ searchInput' = [searchInput EXCEPT !.focused = TRUE]
               /\ autocomplete' = IF searchInput.focused THEN autocomplete
                                  ELSE handleFocus(autocomplete, searchInput.value)
          ELSE /\ app' = [isInitialized |-> FALSE, loading |-> FALSE,
                          listening |-> TRUE,
                          error |-> Some("Failed to load chord database. Please refresh the page.")]
               /\ UNCHANGED <<csChordData, rlChordData, midiIndex, searchInput,
                              autocomplete>>
    /\ UNCHANGED <<db, query, result, viewVars, resolveVars, degVars, modal, timers>>

\* App.init from the point where loadChordData settles: the database is
\* loaded and the rest of the try block runs, or the load fails and the catch
\* block shows the error
App_init ==
    /\ app.loading
    /\ \E loaded \in BOOLEAN :
          IF loaded
          THEN /\ csChordData' = db
               /\ rlChordData' = db
               /\ midiIndex' = buildIndex(db, midiIndex)
               /\ app' = [isInitialized |-> TRUE, loading |-> FALSE,
                          listening |-> TRUE, error |-> Null]
               /\ searchInput' = [searchInput EXCEPT !.focused = TRUE]
               /\ autocomplete' = IF searchInput.focused THEN autocomplete
                                  ELSE handleFocus(autocomplete, searchInput.value)
          ELSE /\ app' = [isInitialized |-> FALSE, loading |-> FALSE,
                          listening |-> FALSE,
                          error |-> Some("Failed to load chord database. Please refresh the page.")]
               /\ UNCHANGED <<csChordData, rlChordData, midiIndex, searchInput,
                              autocomplete>>
    /\ UNCHANGED <<db, query, result, viewVars, resolveVars, degVars, modal, timers>>

\* the user edits the text of the focused search box: an input event, which
\* Autocomplete.handleInput and the debounced App.handleSearch listen to
InputEvent ==
    \E value \in {<<>>, <<"C">>, <<"H">>, <<"C"," ","E"," ","G">>} :
        /\ searchInput.focused
        /\ value # searchInput.value
        /\ searchInput' = [searchInput EXCEPT !.value = value]
        /\ autocomplete' = IF app.listening
                           THEN handleInput(autocomplete, value, searchMode, csChordData)
                           ELSE autocomplete
        /\ timers' = IF app.listening THEN timers \cup {"search"} ELSE timers
        /\ UNCHANGED <<searchVars, viewVars, resolveVars, degVars, modal, app>>

\* the debounce timer of the input listener runs App.handleSearch
DebouncedSearch ==
    /\ "search" \in timers
    /\ timers' = timers \ {"search"}
    /\ \E searched \in {handleSearch(searchInput.value, searchMode, csChordData,
                                       midiIndex, [query |-> query, result |-> result])} :
          /\ query' = searched.query
          /\ result' = searched.result
    /\ UNCHANGED <<db, csChordData, rlChordData, midiIndex>>
    /\ UNCHANGED <<viewVars, resolveVars, degVars, modal, app, autocomplete, searchInput>>

\* the search box, visible in the chord and notes modes, takes the focus
FocusEvent ==
    /\ ~searchInput.focused
    /\ searchMode # "progressions"
    /\ searchInput' = [searchInput EXCEPT !.focused = TRUE]
    /\ autocomplete' = IF app.listening
                       THEN handleFocus(autocomplete, searchInput.value)
                       ELSE autocomplete
    /\ UNCHANGED <<searchVars, viewVars, resolveVars, degVars, modal, app, timers>>

\* the search box loses the focus: Autocomplete.handleBlur sets its timer
BlurEvent ==
    /\ searchInput.focused
    /\ searchInput' = [searchInput EXCEPT !.focused = FALSE]
    /\ timers' = IF app.listening THEN timers \cup {"blur"} ELSE timers
    /\ UNCHANGED <<searchVars, viewVars, resolveVars, degVars, modal, app, autocomplete>>

\* the timer of handleBlur: the dropdown's items cannot hold the focus
BlurTimeout ==
    /\ "blur" \in timers
    /\ timers' = timers \ {"blur"}
    /\ autocomplete' = Autocomplete_close(autocomplete)
    /\ UNCHANGED <<searchVars, viewVars, resolveVars, degVars, modal, app, searchInput>>

\* a key pressed in the search box: Autocomplete.handleKeydown, then the
\* keydown listener of App.setupEventListeners, whose handleSearch on Enter
\* searches again for the name selectItem has searched for; Tab also moves
\* the focus away
InputKeydown ==
    \E key \in {"ArrowDown", "ArrowUp", "Enter", "Escape", "Tab"} :
        /\ app.listening
        /\ searchInput.focused
        /\ LET last == Len(autocomplete.suggestions) - 1
               index == autocomplete.selectedIndex
               chosen == autocomplete.isOpen /\ key = "Enter" /\ index >= 0 /\ index <= last
           IN /\ autocomplete' =
                   IF ~autocomplete.isOpen
                   THEN IF key = "ArrowDown" /\ Len(trim(searchInput.value)) > 0
                        THEN handleInput(autocomplete, searchInput.value,
                                         searchMode, csChordData)
                        ELSE autocomplete
                   ELSE CASE key = "ArrowDown" ->
                               IF last < 0 THEN autocomplete
                               ELSE [autocomplete EXCEPT !.selectedIndex =
                                        IF index + 1 < last THEN index + 1 ELSE last]
                          [] key = "ArrowUp" ->
                               IF last < 0 THEN autocomplete
                               ELSE [autocomplete EXCEPT !.selectedIndex =
                                        IF index - 1 > 0 THEN index - 1 ELSE 0]
                          [] key = "Enter" ->
                               IF chosen THEN Autocomplete_close(autocomplete)
                               ELSE autocomplete
                          [] OTHER -> Autocomplete_close(autocomplete)
              /\ \E value \in {IF chosen THEN autocomplete.suggestions[index + 1]
                               ELSE searchInput.value} :
                    /\ searchInput' = [value |-> value, focused |-> key # "Tab"]
                    /\ \E searched \in
                          {IF key = "Enter"
                           THEN handleSearch(value, searchMode, csChordData, midiIndex,
                                             [query |-> query, result |-> result])
                           ELSE [query |-> query, result |-> result]} :
                          /\ query' = searched.query
                          /\ result' = searched.result
              /\ timers' = IF key = "Tab" THEN timers \cup {"blur"} ELSE timers
        /\ UNCHANGED <<db, csChordData, rlChordData, midiIndex>>
        /\ UNCHANGED <<viewVars, resolveVars, degVars, modal, app>>

\* a mousedown on an item of the open dropdown: Autocomplete.selectItem, whose
\* onSelect is App.searchByChordName
ItemMousedown ==
    /\ app.listening
    /\ autocomplete.isOpen
    /\ \E i \in 1..Len(autocomplete.suggestions) :
          /\ searchInput' = [searchInput EXCEPT !.value = autocomplete.suggestions[i]]
          /\ query' = autocomplete.suggestions[i]
          /\ result' = [kind |-> "chord",
                        value |-> ChordSearch_search(autocomplete.suggestions[i],
                                                     csChordData)]
    /\ autocomplete' = Autocomplete_close(autocomplete)
    /\ UNCHANGED <<db, csChordData, rlChordData, midiIndex>>
    /\ UNCHANGED <<viewVars, resolveVars, degVars, modal, app, timers>>

\* a click on the page outside the search box's wrapper: the box loses the
\* focus it had, and the document's click listeners run
DocumentClick ==
    /\ app.listening
    /\ autocomplete' = Autocomplete_close(autocomplete)
    /\ searchInput' = [searchInput EXCEPT !.focused = FALSE]
    /\ timers' = IF searchInput.focused THEN timers \cup {"blur"} ELSE timers
    /\ popup' = Null
    /\ UNCHANGED <<PROGRESSIONS, searchMode, selectedProgression, selectedKey,
                   alterations, display, lastEvent>>
    /\ UNCHANGED <<searchVars, resolveVars, degVars, modal, app>>

NextUI ==
    \/ App_init
    \/ InputEvent
    \/ DebouncedSearch
    \/ FocusEvent
    \/ BlurEvent
    \/ BlurTimeout
    \/ InputKeydown
    \/ ItemMousedown
    \/ DocumentClick
    \/ SetSearchMode

SpecUI == InitUI /\ [][NextUI]_vars

\* C26: the dropdown is open only while the search mode is 'chord', and a
\* switch to the notes or the progressions tab leaves it closed.
C26_DropdownOnlyInChordMode ==
    /\ [](autocomplete.isOpen => searchMode = "chord")
    /\ [][SetSearchMode /\ searchMode' # "chord" => ~autocomplete'.isOpen]_vars

\* C30: listeners exist only once the database is loaded and ChordSearch and
\* ReverseLookup are initialized, and no step searches, suggests or looks
\* notes up before that; a failed load shows the error, leaves isInitialized
\* false and no listener, and nothing of that changes afterwards.
C30_HandlersOnlyAfterInit ==
    /\ [](app.listening =>
            /\ app.isInitialized
            /\ ~IsNull(csChordData) /\ ~IsNull(rlChordData) /\ ~IsNull(midiIndex))
    /\ [][query' # query \/ result' # result \/ autocomplete' # autocomplete =>
            ~IsNull(csChordData) /\ ~IsNull(rlChordData) /\ ~IsNull(midiIndex)]_vars
    /\ [](~app.loading /\ ~app.isInitialized =>
            ~IsNull(app.error) /\ ~app.listening)
    /\ [](~IsNull(app.error) => ~app.isInitialized /\ ~app.listening)
    /\ [][~IsNull(app.error) =>
            app' = app /\ query' = query /\ result' = result
                       /\ autocomplete' = autocomplete]_vars

\* C30 witness: the load has failed and the user has typed into the search
\* box since; nothing has been searched.
C30_Witness ==
    /\ ~IsNull(app.error)
    /\ ~app.isInitialized
    /\ searchInput.value = <<"C">>
    /\ result = Null

====
